---- MODULE Spec2Model ----
(***************************************************************************)
(* The game-session synchronization engine of the chess client:            *)
(*   - the zustand store (gameStore.ts),                                    *)
(*   - the channel hook (useChessWebSocket.ts),                             *)
(*   - the board's click handling (ChessBoard2D.tsx).                       *)
(* JavaScript strings that the code takes apart or puts together (squares, *)
(* moves, FEN) are sequences of one-character strings; strings the code    *)
(* only compares (ids, modes, statuses) are TLA+ strings.                  *)
(***************************************************************************)
EXTENDS Integers, Sequences, FiniteSets, TLC

VARIABLES
    store,              \* the zustand store: game, isConnected, isLoading, error
    sockets,            \* every WebSocket the hook has constructed, in order
    wsRef,              \* wsRef.current: index into sockets, 0 = null
    aiWsRef,            \* aiWsRef.current: index into sockets, 0 = null
    lastSelectedSquare, \* lastSelectedSquare.current of the board
    pendingQueries,     \* getLegalMovesForSquare promises not yet resolved
    pendingMoves,       \* makeMove requests awaiting their response
    pendingCreates,     \* createGame requests awaiting their response
    nextId,             \* number of sessions the server has created so far
    createResult,       \* what the last finished createGame returned ("none" before)
    study,              \* the state of the StudyCenter component and its chess.js
    preview             \* the lesson preview board of the Academy component

vars == <<store, sockets, wsRef, aiWsRef, lastSelectedSquare,
          pendingQueries, pendingMoves, pendingCreates, nextId, createResult,
          study, preview>>

----------------------------------------------------------------------------
(* Bounds of the model *)

MaxSessions == 2
MaxPendingQueries == 2
MaxPendingMoves == 2
MaxPendingCreates == 2
MaxControlCalls == 2    \* control calls made on one control socket
MaxPendingAnalyses == 1

----------------------------------------------------------------------------
(* JavaScript values *)

Null == "null"                  \* null, where a string is expected
Undefined == "undefined"        \* undefined, where a string is expected
NullStr == <<"null">>           \* null, where a character sequence is expected
UndefinedStr == <<"undefined">> \* undefined, where a character sequence is expected
NoMove == [null |-> TRUE]       \* lastMove: null
NoOpening == [name |-> Null, eco |-> Null]

\* JavaScript truthiness of a string | null | undefined held as characters
TruthyStr(s) == s # NullStr /\ s # UndefinedStr /\ s # <<>>
\* the same for a string held as a TLA+ string
TruthyId(s) == s # Null /\ s # Undefined /\ s # ""

Includes(seq, x) == \E i \in 1..Len(seq) : seq[i] = x

\* String.prototype.substring(from, to) with 0-based from, exclusive to
Substring(s, from, to) ==
    LET hi == IF to > Len(s) THEN Len(s) ELSE to
    IN  IF from >= hi THEN <<>> ELSE SubSeq(s, from + 1, hi)

----------------------------------------------------------------------------
(* Squares, moves and positions *)

FileChars == <<"a", "b", "c", "d", "e", "f", "g", "h">>
RankChars == <<"1", "2", "3", "4", "5", "6", "7", "8">>
DigitChars == {"1", "2", "3", "4", "5", "6", "7", "8"}
UpperChars == {"P", "N", "B", "R", "Q", "K"}

DigitValue(c) == CHOOSE n \in 1..8 : RankChars[n] = c

e2 == <<"e", "2">>
d2 == <<"d", "2">>
e4 == <<"e", "4">>
d4 == <<"d", "4">>
e7 == <<"e", "7">>
e5 == <<"e", "5">>

\* the squares the user clicks on in the model
ClickSquares == {e2, d2, e4, e7}

\* gameStore.ts initialGameState.fen
InitialFen ==
    <<"r","n","b","q","k","b","n","r","/","p","p","p","p","p","p","p","p","/",
      "8","/","8","/","8","/","8","/",
      "P","P","P","P","P","P","P","P","/","R","N","B","Q","K","B","N","R",
      " ","w"," ","K","Q","k","q"," ","-"," ","0"," ","1">>

\* after 1. e4
FenE4 ==
    <<"r","n","b","q","k","b","n","r","/","p","p","p","p","p","p","p","p","/",
      "8","/","8","/","4","P","3","/","8","/",
      "P","P","P","P","1","P","P","P","/","R","N","B","Q","K","B","N","R",
      " ","b"," ","K","Q","k","q"," ","-"," ","0"," ","1">>

\* after 1. e4 e5
FenE4E5 ==
    <<"r","n","b","q","k","b","n","r","/","p","p","p","p","1","p","p","p","/",
      "8","/","4","p","3","/","4","P","3","/","8","/",
      "P","P","P","P","1","P","P","P","/","R","N","B","Q","K","B","N","R",
      " ","w"," ","K","Q","k","q"," ","-"," ","0"," ","2">>

\* fen.split(' ')[0]
RECURSIVE FirstField(_, _)
FirstField(s, i) ==
    IF i > Len(s) \/ s[i] = " " THEN SubSeq(s, 1, i - 1) ELSE FirstField(s, i + 1)

\* `${String.fromCharCode(97 + file)}${rank + 1}`, file and rank 0-based
SquareName(file, rank) == <<FileChars[file + 1], RankChars[rank + 1]>>

\* the loop of boardState over the characters of the placement field
RECURSIVE ScanBoard(_, _, _, _, _)
ScanBoard(b, i, rank, file, pieces) ==
    IF i > Len(b) THEN pieces
    ELSE LET c == b[i] IN
         IF c = "/" THEN ScanBoard(b, i + 1, rank - 1, 0, pieces)
         ELSE IF c \in DigitChars
              THEN ScanBoard(b, i + 1, rank, file + DigitValue(c), pieces)
              ELSE ScanBoard(b, i + 1, rank, file + 1,
                     (SquareName(file, rank) :>
                        [type |-> c,
                         color |-> IF c \in UpperChars THEN "white" ELSE "black"])
                     @@ pieces)

\* the body of boardState: the map from square to piece parsed from game.fen
ParseFen(fen) ==
    IF ~TruthyStr(fen) THEN <<>>
    ELSE ScanBoard(FirstField(fen, 1), 1, 7, 0, <<>>)

\* the positions of the model
Fens == {InitialFen, FenE4, FenE4E5, UndefinedStr}

\* boardState = useMemo(..., [game.fen]): parsed once for each position
boardState == [fen \in Fens |-> ParseFen(fen)]

----------------------------------------------------------------------------
(* The store (gameStore.ts) *)

AuthFields ==
    {"id", "mode", "fen", "status", "whiteDifficulty", "blackDifficulty",
     "moveHistory", "evaluation", "opening", "turn", "isCheck", "isCheckmate",
     "isStalemate", "isDraw", "legalMoves", "isWhiteHuman"}

OverlayFields == {"selectedSquare", "highlightedMoves", "lastMove"}

initialGameState ==
    [id |-> Null,
     mode |-> "human_vs_ai",
     fen |-> InitialFen,
     status |-> "waiting",
     whiteDifficulty |-> "MEDIUM",
     blackDifficulty |-> "MEDIUM",
     moveHistory |-> <<>>,
     evaluation |-> 0,
     opening |-> NoOpening,
     turn |-> "white",
     isCheck |-> FALSE,
     isCheckmate |-> FALSE,
     isStalemate |-> FALSE,
     isDraw |-> FALSE,
     legalMoves |-> <<>>,
     isWhiteHuman |-> TRUE,
     selectedSquare |-> NullStr,
     highlightedMoves |-> <<>>,
     lastMove |-> NoMove]

initialStore ==
    [game |-> initialGameState,
     isConnected |-> FALSE,
     isLoading |-> FALSE,
     error |-> Null]

\* the object spread { ...a, ...b }
Spread(a, b) ==
    [k \in DOMAIN a \cup DOMAIN b |-> IF k \in DOMAIN b THEN b[k] ELSE a[k]]

\* zustand's set(partial): the partial state is merged into the store
ZSet(st, partial) == Spread(st, partial)

\* serverGame.<f>: undefined when the payload does not carry the field
Prop(serverGame, f) ==
    IF f \in DOMAIN serverGame THEN serverGame[f]
    ELSE IF f = "fen" THEN UndefinedStr ELSE Undefined

\* serverGame.<f> || dflt, for the fields whose values are truthy when present
PropOr(serverGame, f, dflt) ==
    IF f \in DOMAIN serverGame THEN serverGame[f] ELSE dflt

\* serverGame.evaluation || 0
EvaluationOr0(serverGame) ==
    IF "evaluation" \in DOMAIN serverGame THEN serverGame.evaluation ELSE 0

\* setGame as it would be if it did not spread the game it holds
setGameReplacing(st, gameUpdate) ==
    ZSet(st, [game |-> Spread(initialGameState, gameUpdate)])

setGame(st, gameUpdate) ==
    ZSet(st, [game |-> Spread(st.game, gameUpdate)])

\* setSelectedSquare as it would be if it also emptied the highlights
setSelectedSquareClearing(st, square) ==
    ZSet(st, [game |-> Spread(st.game, [selectedSquare |-> square,
                                        highlightedMoves |-> <<>>])])

setSelectedSquare(st, square) ==
    ZSet(st, [game |-> Spread(st.game, [selectedSquare |-> square])])

setHighlightedMoves(st, moves) ==
    ZSet(st, [game |-> Spread(st.game, [highlightedMoves |-> moves])])

setLastMove(st, move) ==
    ZSet(st, [game |-> Spread(st.game, [lastMove |-> move])])

setIsConnected(st, connected) == ZSet(st, [isConnected |-> connected])

setIsLoading(st, loading) == ZSet(st, [isLoading |-> loading])

setError(st, err) == ZSet(st, [error |-> err])

resetGame(st) == ZSet(st, [game |-> initialGameState, error |-> Null])

\* updateFromServer as it would be if it merged the payload: fields the
\* payload lacks keep their values
updateFromServerRetaining(st, serverGame) ==
    ZSet(st, [game |-> Spread(st.game,
        [f \in AuthFields \cap DOMAIN serverGame |-> serverGame[f]])])

\* updateFromServer as it would be if it dropped the selection with the update
updateFromServerClearing(st, serverGame) ==
    ZSet(st, [game |-> Spread(st.game,
        [id |-> Prop(serverGame, "id"),
         mode |-> Prop(serverGame, "mode"),
         fen |-> Prop(serverGame, "fen"),
         status |-> Prop(serverGame, "status"),
         whiteDifficulty |-> Prop(serverGame, "whiteDifficulty"),
         blackDifficulty |-> Prop(serverGame, "blackDifficulty"),
         moveHistory |-> PropOr(serverGame, "moveHistory", <<>>),
         evaluation |-> EvaluationOr0(serverGame),
         opening |-> PropOr(serverGame, "opening", NoOpening),
         turn |-> Prop(serverGame, "turn"),
         isCheck |-> Prop(serverGame, "isCheck"),
         isCheckmate |-> Prop(serverGame, "isCheckmate"),
         isStalemate |-> Prop(serverGame, "isStalemate"),
         isDraw |-> Prop(serverGame, "isDraw"),
         legalMoves |-> PropOr(serverGame, "legalMoves", <<>>),
         isWhiteHuman |-> Prop(serverGame, "isWhiteHuman"),
         selectedSquare |-> NullStr,
         highlightedMoves |-> <<>>])])

updateFromServer(st, serverGame) ==
    ZSet(st, [game |-> Spread(st.game,
        [id |-> Prop(serverGame, "id"),
         mode |-> Prop(serverGame, "mode"),
         fen |-> Prop(serverGame, "fen"),
         status |-> Prop(serverGame, "status"),
         whiteDifficulty |-> Prop(serverGame, "whiteDifficulty"),
         blackDifficulty |-> Prop(serverGame, "blackDifficulty"),
         moveHistory |-> PropOr(serverGame, "moveHistory", <<>>),
         evaluation |-> EvaluationOr0(serverGame),
         opening |-> PropOr(serverGame, "opening", NoOpening),
         turn |-> Prop(serverGame, "turn"),
         isCheck |-> Prop(serverGame, "isCheck"),
         isCheckmate |-> Prop(serverGame, "isCheckmate"),
         isStalemate |-> Prop(serverGame, "isStalemate"),
         isDraw |-> Prop(serverGame, "isDraw"),
         legalMoves |-> PropOr(serverGame, "legalMoves", <<>>),
         isWhiteHuman |-> Prop(serverGame, "isWhiteHuman")])])

----------------------------------------------------------------------------
(* What the server can send: sessions, snapshots, frames *)

GameIds == <<"g1", "g2", "g3", "g4">>

e2e4 == e2 \o e4
e7e5 == e7 \o e5
e7e8q == <<"e", "7", "e", "8", "q">>

Snapshot(id, mode, fen, status, history, evaluation, turn, mate) ==
    [id |-> id,
     mode |-> mode,
     fen |-> fen,
     status |-> status,
     whiteDifficulty |-> "MEDIUM",
     blackDifficulty |-> "MEDIUM",
     moveHistory |-> history,
     evaluation |-> evaluation,
     opening |-> NoOpening,
     turn |-> turn,
     isCheck |-> mate,
     isCheckmate |-> mate,
     isStalemate |-> FALSE,
     isDraw |-> FALSE,
     legalMoves |-> <<>>,
     isWhiteHuman |-> TRUE]

\* the snapshot a create call returns for a new session
NewSnapshot(id, mode) ==
    Snapshot(id, mode, InitialFen, "active", <<>>, 0, "white", FALSE)

\* the full snapshots of a session
FullSnapshots(id, mode) ==
    {NewSnapshot(id, mode),
     Snapshot(id, mode, FenE4, "active", <<"e4">>, 20, "black", FALSE),
     Snapshot(id, mode, FenE4E5,
              IF mode = "ai_vs_ai" THEN "completed" ELSE "active",
              <<"e4", "e5">>, 10, "white", mode = "ai_vs_ai")}

\* a payload with the fields of D left out
Without(s, D) == [f \in DOMAIN s \ D |-> s[f]]

\* the field sets a partial snapshot leaves out in the model
DroppedFieldSets == {{"moveHistory", "evaluation", "turn", "status"}}

PartialSnapshots(id, mode) ==
    {Without(Snapshot(id, mode, FenE4, "active", <<"e4">>, 20, "black", FALSE), D) :
        D \in DroppedFieldSets}

Snapshots(id, mode) == FullSnapshots(id, mode) \cup PartialSnapshots(id, mode)

IsFull(s) == AuthFields \subseteq DOMAIN s

Has(obj, f) == f \in DOMAIN obj

\* frames the server pushes on /ws/game/<id>
GameFramesFor(id) ==
    LET S == Snapshots(id, "human_vs_ai") IN
    {[type |-> "connected", game |-> s] : s \in FullSnapshots(id, "human_vs_ai")}
    \cup {[type |-> "state", game |-> s] : s \in S}
    \cup {[type |-> "move", data |-> [game |-> s]] : s \in S}
    \cup {[type |-> "move", data |-> [game |-> s, aiMove |-> [uci |-> e7e5]]] : s \in S}
    \cup {[type |-> "move", data |-> [aiMove |-> [uci |-> e7e5]]],
          [type |-> "ping"]}

\* frames the server pushes on /ws/ai-game/<id>
AIGameFramesFor(id) ==
    LET S == Snapshots(id, "ai_vs_ai") IN
    {[type |-> "connected", game |-> s] : s \in FullSnapshots(id, "ai_vs_ai")}
    \cup {[type |-> "game_over", game |-> s] : s \in S}
    \cup {[type |-> "move", data |-> [game |-> s]] : s \in S}
    \cup {[type |-> "move", data |-> [game |-> s, move |-> [uci |-> u]]] :
            s \in S, u \in {e2e4, e7e8q}}
    \cup {[type |-> "move", data |-> [move |-> [uci |-> e2e4]]],
          [type |-> "paused"],
          [type |-> "resumed"],
          [type |-> "ping"]}

IdSet == {GameIds[n] : n \in 1..Len(GameIds)}

\* a snapshot of a session whose human plays white (w) or black (~w)
ForSide(s, w) == IF Has(s, "isWhiteHuman") THEN [s EXCEPT !.isWhiteHuman = w] ELSE s

FrameForSide(d, w) ==
    IF Has(d, "game") THEN [d EXCEPT !.game = ForSide(d.game, w)]
    ELSE IF Has(d, "data") /\ Has(d.data, "game")
    THEN [d EXCEPT !.data.game = ForSide(d.data.game, w)]
    ELSE d

GameFrames ==
    [id \in IdSet |-> [w \in BOOLEAN |-> {FrameForSide(d, w) : d \in GameFramesFor(id)}]]
AIGameFrames == [id \in IdSet |-> AIGameFramesFor(id)]
MoveResponses ==
    [id \in IdSet |-> [mode \in {"human_vs_ai", "ai_vs_ai"} |->
        [w \in BOOLEAN |-> {ForSide(s, w) : s \in Snapshots(id, mode)}]]]

----------------------------------------------------------------------------
(* The channel hook (useChessWebSocket.ts): message handlers *)

\* useGameStore() has no setIsThinking, so the hook's setIsThinking is
\* undefined and calling it throws a TypeError that ends the handler
SetIsThinkingThrows == TRUE

Ran(st) == [store |-> st, threw |-> FALSE]
Threw(st) == [store |-> st, threw |-> TRUE]

\* updateFromServer(payload), which throws inside set() when payload is undefined
\* and then leaves the store as it was
ApplyPayload(st, obj, f) ==
    IF Has(obj, f) THEN Ran(updateFromServer(st, obj[f])) ELSE Threw(st)

UciFrom(uci) == Substring(uci, 0, 2)
UciTo(uci) == Substring(uci, 2, 4)

\* ws.onmessage of connectToGame as it would be if a state frame called
\* setIsThinking before updateFromServer
GameOnMessageThrowFirst(st, data) ==
    IF data.type = "connected" /\ Has(data, "game")
    THEN LET r == ApplyPayload(st, data, "game") IN
         IF SetIsThinkingThrows THEN Threw(r.store) ELSE r
    ELSE IF data.type = "move" /\ Has(data, "data")
    THEN LET r == ApplyPayload(st, data.data, "game") IN
         IF r.threw \/ SetIsThinkingThrows THEN Threw(r.store)
         ELSE IF Has(data.data, "aiMove")
              THEN Ran(setLastMove(r.store,
                        [from |-> UciFrom(data.data.aiMove.uci),
                         to |-> UciTo(data.data.aiMove.uci)]))
              ELSE r
    ELSE IF data.type = "state" /\ Has(data, "game")
    THEN IF SetIsThinkingThrows THEN Threw(st)
         ELSE ApplyPayload(st, data, "game")
    ELSE Ran(st)

\* ws.onmessage of connectToGame as it would be if it rejected the frames it
\* does not handle
GameOnMessageRejectingUnknown(st, data) ==
    IF data.type = "connected" /\ Has(data, "game")
    THEN LET r == ApplyPayload(st, data, "game") IN
         IF SetIsThinkingThrows THEN Threw(r.store) ELSE r
    ELSE IF data.type = "move" /\ Has(data, "data")
    THEN LET r == ApplyPayload(st, data.data, "game") IN
         IF r.threw \/ SetIsThinkingThrows THEN Threw(r.store)
         ELSE IF Has(data.data, "aiMove")
              THEN Ran(setLastMove(r.store,
                        [from |-> UciFrom(data.data.aiMove.uci),
                         to |-> UciTo(data.data.aiMove.uci)]))
              ELSE r
    ELSE IF data.type = "state" /\ Has(data, "game")
    THEN LET r == ApplyPayload(st, data, "game") IN
         IF SetIsThinkingThrows THEN Threw(r.store) ELSE r
    ELSE Threw(st)

\* ws.onmessage of connectToGame
GameOnMessage(st, data) ==
    IF data.type = "connected" /\ Has(data, "game")
    THEN LET r == ApplyPayload(st, data, "game") IN
         IF SetIsThinkingThrows THEN Threw(r.store) ELSE r
    ELSE IF data.type = "move" /\ Has(data, "data")
    THEN LET r == ApplyPayload(st, data.data, "game") IN
         IF r.threw \/ SetIsThinkingThrows THEN Threw(r.store)
         ELSE IF Has(data.data, "aiMove")
              THEN Ran(setLastMove(r.store,
                        [from |-> UciFrom(data.data.aiMove.uci),
                         to |-> UciTo(data.data.aiMove.uci)]))
              ELSE r
    ELSE IF data.type = "state" /\ Has(data, "game")
    THEN LET r == ApplyPayload(st, data, "game") IN
         IF SetIsThinkingThrows THEN Threw(r.store) ELSE r
    ELSE Ran(st)

\* ws.onmessage of connectToAIGame as it would be if a move frame were a delta:
\* the move is appended to the move list the store holds
AIGameOnMessageDelta(st, data) ==
    IF data.type = "connected" /\ Has(data, "game")
    THEN ApplyPayload(st, data, "game")
    ELSE IF data.type = "move" /\ Has(data, "data")
    THEN LET r == ApplyPayload(st, data.data, "game") IN
         IF r.threw THEN r
         ELSE IF Has(data.data, "move")
              THEN Ran(setLastMove(
                        setGame(r.store,
                                [moveHistory |-> Append(st.game.moveHistory, "move")]),
                        [from |-> UciFrom(data.data.move.uci),
                         to |-> UciTo(data.data.move.uci)]))
              ELSE r
    ELSE IF data.type = "game_over" /\ Has(data, "game")
    THEN LET r == ApplyPayload(st, data, "game") IN
         IF SetIsThinkingThrows THEN Threw(r.store) ELSE r
    ELSE IF data.type = "paused"
    THEN Ran(setGame(st, [status |-> "paused"]))
    ELSE IF data.type = "resumed"
    THEN Ran(setGame(st, [status |-> "active"]))
    ELSE Ran(st)

\* ws.onmessage of connectToAIGame
AIGameOnMessage(st, data) ==
    IF data.type = "connected" /\ Has(data, "game")
    THEN ApplyPayload(st, data, "game")
    ELSE IF data.type = "move" /\ Has(data, "data")
    THEN LET r == ApplyPayload(st, data.data, "game") IN
         IF r.threw THEN r
         ELSE IF Has(data.data, "move")
              THEN Ran(setLastMove(r.store,
                        [from |-> UciFrom(data.data.move.uci),
                         to |-> UciTo(data.data.move.uci)]))
              ELSE r
    ELSE IF data.type = "game_over" /\ Has(data, "game")
    THEN LET r == ApplyPayload(st, data, "game") IN
         IF SetIsThinkingThrows THEN Threw(r.store) ELSE r
    ELSE IF data.type = "paused"
    THEN Ran(setGame(st, [status |-> "paused"]))
    ELSE IF data.type = "resumed"
    THEN Ran(setGame(st, [status |-> "active"]))
    ELSE Ran(st)

\* the snapshot a frame carries, where its handler reads it
NoSnapshot == [none |-> TRUE]
FramePayload(data) ==
    IF data.type \in {"connected", "state", "game_over"} /\ Has(data, "game")
    THEN data.game
    ELSE IF data.type = "move" /\ Has(data, "data") /\ Has(data.data, "game")
    THEN data.data.game
    ELSE NoSnapshot

----------------------------------------------------------------------------
(* The channel hook: sockets *)

NoSocket == 0

\* connectToGame / connectToAIGame: close the socket the ref holds when it is
\* OPEN, construct a new one and keep it in the ref
Connect(socks, ref, kind, gameId) ==
    LET closed == IF ref # NoSocket /\ socks[ref].readyState = "OPEN"
                  THEN [socks EXCEPT ![ref].readyState = "CLOSING"]
                  ELSE socks
    IN  [sockets |-> Append(closed, [kind |-> kind, gameId |-> gameId,
                                     readyState |-> "CONNECTING",
                                     isWhiteHuman |-> TRUE,
                                     calls |-> <<>>, sent |-> <<>>]),
         ref |-> Len(socks) + 1]

\* the state of StudyCenter after mount: chess = new Chess()
initialStudy ==
    [selectedOpening |-> NullStr,
     chess |-> InitialFen,
     fen |-> InitialFen,
     selectedSquare |-> NullStr,
     highlightedMoves |-> <<>>,
     lastMove |-> NoMove,
     analysis |-> NullStr,
     isAnalyzing |-> FALSE,
     pendingAnalyses |-> <<>>]

\* the lesson modal before a lesson is selected: the fen of the lesson shown,
\* the lastSelectedSquare ref of the mounted preview board, and the legal-move
\* queries that preview boards have in flight (mounted: the board that asked
\* is the one shown; last: the final value of the ref of a board that was
\* unmounted)
initialPreview ==
    [fen |-> NullStr, lastSelectedSquare |-> NullStr, pendingQueries |-> <<>>]

----------------------------------------------------------------------------
(* Initial state *)

Init ==
    /\ store = initialStore
    /\ sockets = <<>>
    /\ wsRef = NoSocket
    /\ aiWsRef = NoSocket
    /\ lastSelectedSquare = NullStr
    /\ pendingQueries = <<>>
    /\ pendingMoves = <<>>
    /\ pendingCreates = <<>>
    /\ nextId = 0
    /\ createResult = "none"
    /\ study = initialStudy
    /\ preview = initialPreview

RemoveAt(seq, i) == SubSeq(seq, 1, i - 1) \o SubSeq(seq, i + 1, Len(seq))

----------------------------------------------------------------------------
(* createGame *)

CreateModes == {"human_vs_ai", "ai_vs_ai"}

\* the options createGame is called with
CreateOptions ==
    {[mode |-> "human_vs_ai", playerColor |-> "white"],
     [mode |-> "human_vs_ai", playerColor |-> "black"],
     [mode |-> "ai_vs_ai", playerColor |-> "white"]}

CreateErrors == {"Failed to fetch", "Unexpected token", "Failed to create game"}

\* createGame up to its first await: the request is sent
CreateGameStart(options) ==
    /\ Len(pendingCreates) < MaxPendingCreates
    /\ nextId + Len(pendingCreates) < MaxSessions
    /\ store' = setError(setIsLoading(store, TRUE), Null)
    /\ pendingCreates' = Append(pendingCreates, options)
    /\ UNCHANGED <<sockets, wsRef, aiWsRef, lastSelectedSquare, pendingQueries,
                   pendingMoves, nextId, createResult>>
    /\ UNCHANGED <<study, preview>>

\* the response carries success and a game: apply it, connect, return the game
CreateGameSuccess(k) ==
    /\ LET options == pendingCreates[k]
           id == GameIds[nextId + 1]
           isWhiteHuman == options.playerColor = "white"
           data == [success |-> TRUE,
                    game |-> ForSide(NewSnapshot(id, options.mode), isWhiteHuman)]
           conn == IF options.mode = "ai_vs_ai"
                   THEN Connect(sockets, aiWsRef, "ai", data.game.id)
                   ELSE Connect(sockets, wsRef, "game", data.game.id)
       IN  /\ store' = setIsLoading(updateFromServer(store, data.game), FALSE)
           /\ sockets' = [conn.sockets EXCEPT ![conn.ref].isWhiteHuman = isWhiteHuman]
           /\ IF options.mode = "ai_vs_ai"
              THEN aiWsRef' = conn.ref /\ UNCHANGED wsRef
              ELSE wsRef' = conn.ref /\ UNCHANGED aiWsRef
           /\ createResult' = data.game.id
    /\ pendingCreates' = RemoveAt(pendingCreates, k)
    /\ nextId' = nextId + 1
    /\ UNCHANGED <<lastSelectedSquare, pendingQueries, pendingMoves>>
    /\ UNCHANGED <<study, preview>>

\* the catch block of createGame as it would be if it also reset the session
CreateGameFailReset(k, message) ==
    /\ store' = setIsLoading(setError(resetGame(store), message), FALSE)
    /\ createResult' = Null
    /\ pendingCreates' = RemoveAt(pendingCreates, k)
    /\ UNCHANGED <<sockets, wsRef, aiWsRef, lastSelectedSquare, pendingQueries,
                   pendingMoves, nextId>>
    /\ UNCHANGED <<study, preview>>

\* fetch or response.json() rejects, or the response lacks success or game:
\* the catch block records the message and createGame returns null
CreateGameFail(k, message) ==
    /\ store' = setIsLoading(setError(store, message), FALSE)
    /\ createResult' = Null
    /\ pendingCreates' = RemoveAt(pendingCreates, k)
    /\ UNCHANGED <<sockets, wsRef, aiWsRef, lastSelectedSquare, pendingQueries,
                   pendingMoves, nextId>>
    /\ UNCHANGED <<study, preview>>

----------------------------------------------------------------------------
(* Socket events *)

\* ws.onopen
SocketOnOpen(i) ==
    /\ sockets[i].readyState = "CONNECTING"
    /\ sockets' = [sockets EXCEPT ![i].readyState = "OPEN"]
    /\ store' = setIsConnected(store, TRUE)
    /\ UNCHANGED <<wsRef, aiWsRef, lastSelectedSquare, pendingQueries,
                   pendingMoves, pendingCreates, nextId, createResult>>
    /\ UNCHANGED <<study, preview>>

\* ws.onclose as it would be if a dropped channel were reconnected
SocketOnCloseReconnecting(i) ==
    /\ sockets[i].readyState \in {"OPEN", "CLOSING"}
    /\ Len(sockets) <= MaxSessions
    /\ sockets' = Append([sockets EXCEPT ![i].readyState = "CLOSED"],
                         [sockets[i] EXCEPT !.readyState = "CONNECTING"])
    /\ store' = setIsConnected(store, FALSE)
    /\ UNCHANGED <<wsRef, aiWsRef, lastSelectedSquare, pendingQueries,
                   pendingMoves, pendingCreates, nextId, createResult>>
    /\ UNCHANGED <<study, preview>>

\* ws.onclose after a clean close (the server's, or the end of close())
SocketOnClose(i) ==
    /\ sockets[i].readyState \in {"OPEN", "CLOSING"}
    /\ sockets' = [sockets EXCEPT ![i].readyState = "CLOSED"]
    /\ store' = setIsConnected(store, FALSE)
    /\ UNCHANGED <<wsRef, aiWsRef, lastSelectedSquare, pendingQueries,
                   pendingMoves, pendingCreates, nextId, createResult>>
    /\ UNCHANGED <<study, preview>>

\* the connection fails: ws.onerror, then ws.onclose
SocketOnError(i) ==
    /\ sockets[i].readyState \in {"CONNECTING", "OPEN"}
    /\ sockets' = [sockets EXCEPT ![i].readyState = "CLOSED"]
    /\ store' = setIsConnected(setError(store, "Connection error"), FALSE)
    /\ UNCHANGED <<wsRef, aiWsRef, lastSelectedSquare, pendingQueries,
                   pendingMoves, pendingCreates, nextId, createResult>>
    /\ UNCHANGED <<study, preview>>

\* a frame arrives on a socket of connectToGame
GameMessage(i, data) ==
    /\ sockets[i].kind = "game"
    /\ sockets[i].readyState = "OPEN"
    /\ store' = GameOnMessage(store, data).store
    /\ UNCHANGED <<sockets, wsRef, aiWsRef, lastSelectedSquare, pendingQueries,
                   pendingMoves, pendingCreates, nextId, createResult>>
    /\ UNCHANGED <<study, preview>>

\* a frame arrives on a socket of connectToAIGame
AIGameMessage(i, data) ==
    /\ sockets[i].kind = "ai"
    /\ sockets[i].readyState = "OPEN"
    /\ store' = AIGameOnMessage(store, data).store
    /\ UNCHANGED <<sockets, wsRef, aiWsRef, lastSelectedSquare, pendingQueries,
                   pendingMoves, pendingCreates, nextId, createResult>>
    /\ UNCHANGED <<study, preview>>

----------------------------------------------------------------------------
(* The control calls of an automated session *)

\* setAIGameSpeed's argument, in tenths of a second (the page's gameSpeed is 1.5)
Speeds == {15}

\* a control call as it would be if it used the primary socket's ref
ControlCallOnPrimary(call, frame) ==
    /\ IF wsRef = NoSocket
       THEN UNCHANGED sockets
       ELSE /\ Len(sockets[wsRef].calls) < MaxControlCalls
            /\ sockets' = [sockets EXCEPT
                              ![wsRef].calls = Append(@, call),
                              ![wsRef].sent =
                                  IF sockets[wsRef].readyState = "OPEN"
                                  THEN Append(@, frame) ELSE @]
    /\ UNCHANGED <<store, wsRef, aiWsRef, lastSelectedSquare, pendingQueries,
                   pendingMoves, pendingCreates, nextId, createResult>>
    /\ UNCHANGED <<study, preview>>

\* a control call as it would be if it reported a channel that is not open
ControlCallReporting(call, frame) ==
    /\ IF aiWsRef = NoSocket
       THEN /\ store' = setError(store, "Not connected")
            /\ UNCHANGED sockets
       ELSE /\ Len(sockets[aiWsRef].calls) < MaxControlCalls
            /\ sockets' = [sockets EXCEPT
                              ![aiWsRef].calls = Append(@, call),
                              ![aiWsRef].sent =
                                  IF sockets[aiWsRef].readyState = "OPEN"
                                  THEN Append(@, frame) ELSE @]
            /\ store' = IF sockets[aiWsRef].readyState = "OPEN"
                        THEN store
                        ELSE setError(store, "Not connected")
    /\ UNCHANGED <<wsRef, aiWsRef, lastSelectedSquare, pendingQueries,
                   pendingMoves, pendingCreates, nextId, createResult>>
    /\ UNCHANGED <<study, preview>>

\* a control call as it would be without the test of readyState
ControlCallUnguarded(call, frame) ==
    /\ IF aiWsRef = NoSocket
       THEN UNCHANGED sockets
       ELSE /\ Len(sockets[aiWsRef].calls) < MaxControlCalls
            /\ sockets' = [sockets EXCEPT
                              ![aiWsRef].calls = Append(@, call),
                              ![aiWsRef].sent = Append(@, frame)]
    /\ UNCHANGED <<store, wsRef, aiWsRef, lastSelectedSquare, pendingQueries,
                   pendingMoves, pendingCreates, nextId, createResult>>
    /\ UNCHANGED <<study, preview>>

\* a control call: aiWsRef.current.send(JSON.stringify(frame)) if the socket
\* the ref holds is OPEN, nothing otherwise; calls lists the calls made while
\* the socket was the one in the ref, sent the frames handed to its send
ControlCall(call, frame) ==
    /\ IF aiWsRef = NoSocket
       THEN UNCHANGED sockets
       ELSE /\ Len(sockets[aiWsRef].calls) < MaxControlCalls
            /\ sockets' = [sockets EXCEPT
                              ![aiWsRef].calls = Append(@, call),
                              ![aiWsRef].sent =
                                  IF sockets[aiWsRef].readyState = "OPEN"
                                  THEN Append(@, frame) ELSE @]
    /\ UNCHANGED <<store, wsRef, aiWsRef, lastSelectedSquare, pendingQueries,
                   pendingMoves, pendingCreates, nextId, createResult>>
    /\ UNCHANGED <<study, preview>>

pauseAIGame == ControlCall("pause", [type |-> "pause"])

resumeAIGame == ControlCall("resume", [type |-> "resume"])

stepAIGame == ControlCall("step", [type |-> "step"])

setAIGameSpeed(speed) == ControlCall("speed", [type |-> "speed", value |-> speed])

----------------------------------------------------------------------------
(* The board (ChessBoard2D.tsx): clicks and legal-move queries *)

\* the engine's answer for a square: nothing, or its one destination
Destination(square) == IF square = e2 THEN e4 ELSE IF square = d2 THEN d4 ELSE e5

\* what the legal-moves request of a square can end in: fetch rejects,
\* response.json() rejects, a body without moves, a body with the move list
QueryResponses(square) ==
    {[kind |-> "fetch rejects"],
     [kind |-> "json rejects"],
     [kind |-> "json", data |-> [success |-> FALSE]],
     [kind |-> "json", data |-> [moves |-> <<square \o Destination(square)>>]]}

\* getLegalMovesForSquare as it would be without its catch block
getLegalMovesForSquareRethrowing(id, response) ==
    IF ~TruthyId(id) THEN [moves |-> <<>>, threw |-> FALSE]
    ELSE IF response.kind # "json" THEN [moves |-> <<>>, threw |-> TRUE]
    ELSE [moves |-> PropOr(response.data, "moves", <<>>), threw |-> FALSE]

\* getLegalMovesForSquare: [] without a session id, [] from the catch block,
\* data.moves || [] otherwise; the promise never rejects
getLegalMovesForSquare(id, response) ==
    IF ~TruthyId(id) THEN [moves |-> <<>>, threw |-> FALSE]
    ELSE IF response.kind # "json" THEN [moves |-> <<>>, threw |-> FALSE]
    ELSE [moves |-> PropOr(response.data, "moves", <<>>), threw |-> FALSE]

\* the lists a query started in a session can resolve to
QueryResults(square) ==
    {getLegalMovesForSquare(GameIds[1], r).moves : r \in QueryResponses(square)}

\* a later selection of another square supersedes the queries still pending
Supersede(queries, square) ==
    [k \in 1..Len(queries) |->
        IF queries[k].square # square
        THEN [queries[k] EXCEPT !.superseded = TRUE]
        ELSE queries[k]]

\* isPlayerPiece as it would be without the tests of the side to move
isPlayerPieceAnyTurn(g, piece) ==
    \/ (g.isWhiteHuman /\ piece.color = "white")
    \/ (~g.isWhiteHuman /\ piece.color = "black")
    \/ g.mode = "ai_vs_ai"

isPlayerPiece(g, piece) ==
    \/ (g.isWhiteHuman /\ piece.color = "white" /\ g.turn = "white")
    \/ (~g.isWhiteHuman /\ piece.color = "black" /\ g.turn = "black")
    \/ g.mode = "ai_vs_ai"

\* setSelectedSquare(null); setHighlightedMoves([])
ClearSelection(st) == setHighlightedMoves(setSelectedSquare(st, NullStr), <<>>)

\* the commit as it would be if it passed the turn before the server answers
ClickCommitOptimistic(square) ==
    LET g == store.game
        move == g.selectedSquare \o square
    IN  /\ store' = setGame(ClearSelection(store),
                            [turn |-> IF g.turn = "white" THEN "black" ELSE "white"])
        /\ IF TruthyId(g.id)
           THEN /\ Len(pendingMoves) < MaxPendingMoves
                /\ pendingMoves' = Append(pendingMoves, [move |-> move, id |-> g.id])
           ELSE UNCHANGED pendingMoves
        /\ UNCHANGED <<lastSelectedSquare, pendingQueries>>

\* the commit as it would be if it submitted the destination alone
ClickCommitDestinationOnly(square) ==
    LET g == store.game
        move == square
    IN  /\ store' = ClearSelection(store)
        /\ IF TruthyId(g.id)
           THEN /\ Len(pendingMoves) < MaxPendingMoves
                /\ pendingMoves' = Append(pendingMoves, [move |-> move, id |-> g.id])
           ELSE UNCHANGED pendingMoves
        /\ UNCHANGED <<lastSelectedSquare, pendingQueries>>

\* the click commits selectedSquare + square: clear, then makeMove(move) up to
\* its await (no request without a session id)
ClickCommit(square) ==
    LET g == store.game
        move == g.selectedSquare \o square
    IN  /\ store' = ClearSelection(store)
        /\ IF TruthyId(g.id)
           THEN /\ Len(pendingMoves) < MaxPendingMoves
                /\ pendingMoves' = Append(pendingMoves, [move |-> move, id |-> g.id])
           ELSE UNCHANGED pendingMoves
        /\ UNCHANGED <<lastSelectedSquare, pendingQueries>>

\* the selection as it would be if it did not ask for the legal destinations
ClickSelectWithoutQuery(square) ==
    /\ lastSelectedSquare' = square
    /\ store' = setHighlightedMoves(setSelectedSquare(store, square), <<>>)
    /\ pendingQueries' = Supersede(pendingQueries, square)
    /\ UNCHANGED pendingMoves

\* the click selects the square: select, clear the highlights, remember the
\* square, and start getLegalMovesForSquare unless the mode is ai_vs_ai;
\* without a session id the query resolves to [] before any other event
ClickSelect(square) ==
    LET g == store.game
        selected == setHighlightedMoves(setSelectedSquare(store, square), <<>>)
    IN  /\ lastSelectedSquare' = square
        /\ IF g.mode # "ai_vs_ai" /\ TruthyId(g.id)
           THEN /\ Len(pendingQueries) < MaxPendingQueries
                /\ store' = selected
                /\ pendingQueries' =
                       Append(Supersede(pendingQueries, square),
                              [square |-> square, superseded |-> FALSE])
           ELSE /\ store' = IF g.mode # "ai_vs_ai"
                            THEN setHighlightedMoves(selected, <<>>)
                            ELSE selected
                /\ pendingQueries' = Supersede(pendingQueries, square)
        /\ UNCHANGED pendingMoves

\* the deselection as it would be if it left the highlights
ClickDeselectKeepingHighlights ==
    /\ store' = setSelectedSquare(store, NullStr)
    /\ lastSelectedSquare' = NullStr
    /\ UNCHANGED <<pendingQueries, pendingMoves>>

\* the click deselects: clear and forget the square
ClickDeselect ==
    /\ store' = ClearSelection(store)
    /\ lastSelectedSquare' = NullStr
    /\ UNCHANGED <<pendingQueries, pendingMoves>>

\* the click does nothing: a piece that is not selectable, with nothing selected
ClickIgnored ==
    /\ UNCHANGED <<store, lastSelectedSquare, pendingQueries, pendingMoves>>

\* handleSquareClick of the store-backed board
HandleSquareClick(square) ==
    LET g == store.game
        pieces == boardState[g.fen]
    IN  /\ IF TruthyStr(g.selectedSquare)
              /\ Includes(g.highlightedMoves, g.selectedSquare \o square)
           THEN ClickCommit(square)
           ELSE IF square \in DOMAIN pieces
           THEN IF isPlayerPiece(g, pieces[square]) \/ g.mode = "ai_vs_ai"
                THEN IF g.selectedSquare = square
                     THEN ClickDeselect
                     ELSE ClickSelect(square)
                ELSE IF TruthyStr(g.selectedSquare)
                     THEN ClickDeselect
                     ELSE ClickIgnored
           ELSE ClickDeselect
        /\ UNCHANGED <<sockets, wsRef, aiWsRef, pendingCreates, nextId, createResult>>
        /\ UNCHANGED <<study, preview>>

\* the then-callback as it would be if it kept only the captures
LegalMovesResolvedFiltering(k, moves) ==
    LET q == pendingQueries[k] IN
    /\ pendingQueries' = RemoveAt(pendingQueries, k)
    /\ store' = IF lastSelectedSquare = q.square
                THEN setHighlightedMoves(store,
                        SelectSeq(moves, LAMBDA m :
                            SubSeq(m, 3, 4) \in DOMAIN boardState[store.game.fen]))
                ELSE store
    /\ UNCHANGED <<sockets, wsRef, aiWsRef, lastSelectedSquare, pendingMoves,
                   pendingCreates, nextId, createResult>>
    /\ UNCHANGED <<study, preview>>

\* a getLegalMovesForSquare promise resolves and its then-callback runs
LegalMovesResolved(k, moves) ==
    LET q == pendingQueries[k] IN
    /\ pendingQueries' = RemoveAt(pendingQueries, k)
    /\ store' = IF lastSelectedSquare = q.square
                THEN setHighlightedMoves(store, moves)
                ELSE store
    /\ UNCHANGED <<sockets, wsRef, aiWsRef, lastSelectedSquare, pendingMoves,
                   pendingCreates, nextId, createResult>>
    /\ UNCHANGED <<study, preview>>

----------------------------------------------------------------------------
(* makeMove after its await *)

MoveErrors == {"Failed to fetch"}

\* the mode the server created the session with: the kind of socket opened for it
SessionMode(id) ==
    IF \E i \in 1..Len(sockets) : sockets[i].gameId = id /\ sockets[i].kind = "ai"
    THEN "ai_vs_ai" ELSE "human_vs_ai"

\* the side the human plays in the session, as the server created it
SessionIsWhiteHuman(id) ==
    \A i \in 1..Len(sockets) : sockets[i].gameId = id => sockets[i].isWhiteHuman

\* the responses the server can give to the pending move k
ResponsesTo(k) ==
    MoveResponses[pendingMoves[k].id][SessionMode(pendingMoves[k].id)]
                 [SessionIsWhiteHuman(pendingMoves[k].id)]

\* makeMove's success branch as it would be without its setLastMove
MakeMoveApplyNoLastMove(st, move, game) == updateFromServer(st, game)

\* makeMove after a response with success and a game:
\* updateFromServer(data.game), then setLastMove from the move's characters
MakeMoveApply(st, move, game) ==
    setLastMove(updateFromServer(st, game),
                [from |-> Substring(move, 0, 2), to |-> Substring(move, 2, 4)])

\* the response carries success and a game
MakeMoveSuccess(k, snapshot) ==
    /\ pendingMoves' = RemoveAt(pendingMoves, k)
    /\ store' = MakeMoveApply(store, pendingMoves[k].move, snapshot)
    /\ UNCHANGED <<sockets, wsRef, aiWsRef, lastSelectedSquare, pendingQueries,
                   pendingCreates, nextId, createResult>>
    /\ UNCHANGED <<study, preview>>

\* makeMove after a response without success or without a game: the if is
\* not taken, nothing is thrown and makeMove returns undefined
MakeMoveNoSnapshot(st) == Ran(st)

\* the rejection as it would be if makeMove reported it like a failure
MakeMoveRejectedAsError(k) ==
    /\ pendingMoves' = RemoveAt(pendingMoves, k)
    /\ store' = setError(store, "Invalid move")
    /\ UNCHANGED <<sockets, wsRef, aiWsRef, lastSelectedSquare,
                   pendingQueries, pendingCreates, nextId, createResult>>
    /\ UNCHANGED <<study, preview>>

\* the engine rejects the move: a response without success or without a game
MakeMoveRejected(k) ==
    /\ pendingMoves' = RemoveAt(pendingMoves, k)
    /\ store' = MakeMoveNoSnapshot(store).store
    /\ UNCHANGED <<sockets, wsRef, aiWsRef, lastSelectedSquare,
                   pendingQueries, pendingCreates, nextId, createResult>>
    /\ UNCHANGED <<study, preview>>

\* the catch block of makeMove: setError(error.message); nothing is rethrown
MakeMoveCatch(st, message) == Ran(setError(st, message))

\* the catch block as it would be if it also forgot the last move
MakeMoveErrorClearing(k, message) ==
    /\ pendingMoves' = RemoveAt(pendingMoves, k)
    /\ store' = setLastMove(setError(store, message), NoMove)
    /\ UNCHANGED <<sockets, wsRef, aiWsRef, lastSelectedSquare, pendingQueries,
                   pendingCreates, nextId, createResult>>
    /\ UNCHANGED <<study, preview>>

\* fetch or response.json() rejects: the catch block records the message
MakeMoveError(k, message) ==
    /\ pendingMoves' = RemoveAt(pendingMoves, k)
    /\ store' = MakeMoveCatch(store, message).store
    /\ UNCHANGED <<sockets, wsRef, aiWsRef, lastSelectedSquare, pendingQueries,
                   pendingCreates, nextId, createResult>>
    /\ UNCHANGED <<study, preview>>

----------------------------------------------------------------------------
(* The page (GamePage.tsx) *)

\* the page's effect without an opening parameter: no session, so reset
PageEffect ==
    /\ ~TruthyId(store.game.id)
    /\ store' = resetGame(store)
    /\ UNCHANGED <<sockets, wsRef, aiWsRef, lastSelectedSquare, pendingQueries,
                   pendingMoves, pendingCreates, nextId, createResult>>
    /\ UNCHANGED <<study, preview>>

\* handleStartGame: the setup panel is shown while there is no session and its
\* start button is disabled while a create is loading
StartGame(options) ==
    /\ ~TruthyId(store.game.id)
    /\ ~store.isLoading
    /\ CreateGameStart(options)

\* handleStartGame of pages/GamePage.tsx: the setup panel can be shown again
\* at any time (handleNewGame) and its button is always enabled; the mode is
\* the route's, so it is the mode of what this visit has created or asked for
StartGameOnPage(options) ==
    /\ (wsRef # NoSocket
          \/ \E k \in 1..Len(pendingCreates) : pendingCreates[k].mode = "human_vs_ai")
       => options.mode = "human_vs_ai"
    /\ (aiWsRef # NoSocket
          \/ \E k \in 1..Len(pendingCreates) : pendingCreates[k].mode = "ai_vs_ai")
       => options.mode = "ai_vs_ai"
    /\ CreateGameStart(options)

\* a click on the board of pages/GamePage.tsx, which is rendered (with the
\* store's game and no onSquareClick) once a create of this visit has
\* succeeded and the setup panel is not shown again
ClickOnPage(square) ==
    /\ wsRef # NoSocket \/ aiWsRef # NoSocket
    /\ pendingCreates = <<>>
    /\ HandleSquareClick(square)

\* ws.close(): a socket that is connecting or open starts closing
Close(sock) ==
    IF sock.readyState \in {"CONNECTING", "OPEN"}
    THEN [sock EXCEPT !.readyState = "CLOSING"]
    ELSE sock

\* navigate('/') of pages/GamePage.tsx, taken while no request is in flight:
\* the page and its board unmount, the hook's cleanup closes the sockets its
\* refs hold, and the next visit starts with new refs; the store is kept
LeavePage ==
    /\ wsRef # NoSocket \/ aiWsRef # NoSocket
    /\ pendingCreates = <<>>
    /\ pendingQueries = <<>>
    /\ pendingMoves = <<>>
    /\ sockets' = [i \in 1..Len(sockets) |->
                      IF i \in {wsRef, aiWsRef} THEN Close(sockets[i]) ELSE sockets[i]]
    /\ wsRef' = NoSocket
    /\ aiWsRef' = NoSocket
    /\ lastSelectedSquare' = NullStr
    /\ UNCHANGED <<store, pendingQueries, pendingMoves, pendingCreates, nextId,
                   createResult, study, preview>>

----------------------------------------------------------------------------
(* The study centre (StudyCenter.tsx) and the lesson preview (Academy.tsx) *)

e3 == <<"e", "3">>
d3 == <<"d", "3">>
e6 == <<"e", "6">>

\* a position string that is not a FEN: two rows and two fields
InvalidFen == <<"8", "/", "8", " ", "w">>

\* the fen of the openings of the catalogue: positions, one that does not
\* parse and one that is empty
OpeningFens == {InitialFen, FenE4, InvalidFen, <<>>}

\* the fen of the lessons
LessonFens == {InitialFen, FenE4}

Count(s, c) == Cardinality({i \in 1..Len(s) : s[i] = c})

\* what chess.js requires of a FEN before it loads it: six space-delimited
\* fields and eight rows
ValidFen(fen) == Count(fen, " ") = 5 /\ Count(FirstField(fen, 1), "/") = 7

\* chess.load(fen): throws on a FEN that does not validate, before it touches
\* the position it holds (the instance is held as the FEN chess.fen() prints)
ChessLoad(chess, fen) ==
    IF ValidFen(fen) THEN [chess |-> fen, threw |-> FALSE]
    ELSE [chess |-> chess, threw |-> TRUE]

\* chess.moves({square, verbose: true}) as from + to, for the positions and
\* squares of the model
ChessMoves(chess, square) ==
    IF chess \in {InitialFen, FenE4E5} /\ square = d2 THEN <<d2 \o d3, d2 \o d4>>
    ELSE IF chess = InitialFen /\ square = e2 THEN <<e2 \o e3, e2 \o e4>>
    ELSE IF chess = FenE4 /\ square = e7 THEN <<e7 \o e6, e7 \o e5>>
    ELSE <<>>

\* the position after chess.move of a move of ChessMoves (the only one whose
\* destination is clicked in the model is e2e4)
ChessAfter(chess, move) ==
    IF chess = InitialFen /\ move = e2 \o e4 THEN FenE4
    ELSE IF chess = FenE4 /\ move = e7 \o e5 THEN FenE4E5
    ELSE chess

\* runAnalysis(currentFen) up to its await
runAnalysis(s, currentFen) ==
    [s EXCEPT !.isAnalyzing = TRUE, !.pendingAnalyses = Append(@, currentFen)]

\* the selectedOpening effect as it would be if a failed load did not throw
SelectOpeningUnchecked(fen) ==
    /\ fen # study.selectedOpening
    /\ IF TruthyStr(fen)
       THEN /\ Len(study.pendingAnalyses) < MaxPendingAnalyses
            /\ study' = runAnalysis(
                   [study EXCEPT !.selectedOpening = fen,
                                 !.chess = ChessLoad(study.chess, fen).chess,
                                 !.fen = ChessLoad(study.chess, fen).chess,
                                 !.lastMove = NoMove,
                                 !.highlightedMoves = <<>>,
                                 !.selectedSquare = NullStr], fen)
       ELSE study' = [study EXCEPT !.selectedOpening = fen]
    /\ UNCHANGED <<store, sockets, wsRef, aiWsRef, lastSelectedSquare, pendingQueries,
                   pendingMoves, pendingCreates, nextId, createResult, preview>>

\* an opening with this fen is selected and the selectedOpening effect runs:
\* load, reset the board state and analyse, or catch and log
SelectOpening(fen) ==
    /\ fen # study.selectedOpening
    /\ IF TruthyStr(fen) /\ ~ChessLoad(study.chess, fen).threw
       THEN /\ Len(study.pendingAnalyses) < MaxPendingAnalyses
            /\ study' = runAnalysis(
                   [study EXCEPT !.selectedOpening = fen,
                                 !.chess = ChessLoad(study.chess, fen).chess,
                                 !.fen = ChessLoad(study.chess, fen).chess,
                                 !.lastMove = NoMove,
                                 !.highlightedMoves = <<>>,
                                 !.selectedSquare = NullStr], fen)
       ELSE study' = [study EXCEPT !.selectedOpening = fen]
    /\ UNCHANGED <<store, sockets, wsRef, aiWsRef, lastSelectedSquare, pendingQueries,
                   pendingMoves, pendingCreates, nextId, createResult, preview>>

\* fetchAnalysis resolves (ok) or rejects: setAnalysis, then the finally block
AnalysisResolved(k, ok) ==
    /\ study' = [study EXCEPT
                    !.analysis = IF ok THEN study.pendingAnalyses[k] ELSE @,
                    !.isAnalyzing = FALSE,
                    !.pendingAnalyses = RemoveAt(@, k)]
    /\ UNCHANGED <<store, sockets, wsRef, aiWsRef, lastSelectedSquare, pendingQueries,
                   pendingMoves, pendingCreates, nextId, createResult, preview>>

\* a click on the study board: ChessBoard2D's handleSquareClick calls the
\* onSquareClick it was given and returns; that is StudyCenter's
\* handleSquareClick, which moves, selects or deselects in its own state
StudyBoardClick(square) ==
    LET sel == study.selectedSquare
        move == sel \o square
        pieces == boardState[study.chess]
    IN  /\ IF TruthyStr(sel) /\ Includes(ChessMoves(study.chess, sel), move)
           THEN /\ Len(study.pendingAnalyses) < MaxPendingAnalyses
                /\ study' = runAnalysis(
                       [study EXCEPT !.chess = ChessAfter(study.chess, move),
                                     !.fen = ChessAfter(study.chess, move),
                                     !.lastMove = [from |-> sel, to |-> square],
                                     !.selectedSquare = NullStr,
                                     !.highlightedMoves = <<>>],
                       ChessAfter(study.chess, move))
           ELSE IF square \in DOMAIN pieces /\ sel # square
           THEN study' = [study EXCEPT
                             !.selectedSquare = square,
                             !.highlightedMoves = ChessMoves(study.chess, square)]
           ELSE study' = [study EXCEPT !.selectedSquare = NullStr,
                                       !.highlightedMoves = <<>>]
        /\ UNCHANGED <<store, sockets, wsRef, aiWsRef, lastSelectedSquare,
                       pendingQueries, pendingMoves, pendingCreates, nextId,
                       createResult, preview>>

\* fen.split(' ')[1]
SecondField(fen) ==
    LET start == Len(FirstField(fen, 1)) + 2
    IN  SubSeq(FirstField(fen, start), start, Len(FirstField(fen, start)))

\* Academy's createPreviewState(fen)
createPreviewState(fen) ==
    [id |-> "preview",
     mode |-> "human_vs_ai",
     fen |-> fen,
     status |-> "active",
     whiteDifficulty |-> "MEDIUM",
     blackDifficulty |-> "MEDIUM",
     moveHistory |-> <<>>,
     evaluation |-> 0,
     opening |-> [name |-> Null, eco |-> Null],
     turn |-> IF SecondField(fen) = <<"w">> THEN "white" ELSE "black",
     isCheck |-> FALSE,
     isCheckmate |-> FALSE,
     isStalemate |-> FALSE,
     isDraw |-> FALSE,
     legalMoves |-> <<>>,
     isWhiteHuman |-> TRUE,
     selectedSquare |-> NullStr,
     highlightedMoves |-> <<>>,
     lastMove |-> NoMove]

\* a lesson card is clicked: the modal opens and a preview board is mounted
\* on the lesson's fen
SelectLesson(fen) ==
    /\ ~TruthyStr(preview.fen)
    /\ preview' = [preview EXCEPT !.fen = fen]
    /\ UNCHANGED <<store, sockets, wsRef, aiWsRef, lastSelectedSquare, pendingQueries,
                   pendingMoves, pendingCreates, nextId, createResult, study>>

\* the modal is closed: setSelectedLesson(null) unmounts the preview board; the
\* callbacks of its queries keep the ref it had
CloseLesson ==
    /\ TruthyStr(preview.fen)
    /\ preview' =
          [fen |-> NullStr,
           lastSelectedSquare |-> NullStr,
           pendingQueries |->
              [k \in 1..Len(preview.pendingQueries) |->
                  IF preview.pendingQueries[k].mounted
                  THEN [preview.pendingQueries[k] EXCEPT
                           !.mounted = FALSE,
                           !.last = preview.lastSelectedSquare]
                  ELSE preview.pendingQueries[k]]]
    /\ UNCHANGED <<store, sockets, wsRef, aiWsRef, lastSelectedSquare, pendingQueries,
                   pendingMoves, pendingCreates, nextId, createResult, study>>

\* a click on the preview board (a gameState, no onSquareClick) as it would be
\* if a board with a gameState did not run the internal logic
PreviewSquareClickInert(square) ==
    /\ TruthyStr(preview.fen)
    /\ UNCHANGED <<store, sockets, wsRef, aiWsRef, lastSelectedSquare, pendingQueries,
                   pendingMoves, pendingCreates, nextId, createResult, study, preview>>

\* a click on the preview board: ChessBoard2D is given a gameState and no
\* onSquareClick, so handleSquareClick runs its internal logic on the preview
\* state, with the store's setters and the hook's makeMove and
\* getLegalMovesForSquare (which use the store's game.id)
PreviewSquareClick(square) ==
    LET g == createPreviewState(preview.fen)
        pieces == boardState[g.fen]
        cleared == ClearSelection(store)
    IN  /\ TruthyStr(preview.fen)
        /\ IF TruthyStr(g.selectedSquare)
              /\ Includes(g.highlightedMoves, g.selectedSquare \o square)
           THEN /\ store' = cleared
                /\ IF TruthyId(store.game.id)
                   THEN /\ Len(pendingMoves) < MaxPendingMoves
                        /\ pendingMoves' =
                              Append(pendingMoves,
                                     [move |-> g.selectedSquare \o square,
                                      id |-> store.game.id])
                   ELSE UNCHANGED pendingMoves
                /\ UNCHANGED preview
           ELSE IF square \in DOMAIN pieces
           THEN IF isPlayerPiece(g, pieces[square]) \/ g.mode = "ai_vs_ai"
                THEN IF g.selectedSquare = square
                     THEN /\ store' = cleared
                          /\ preview' = [preview EXCEPT !.lastSelectedSquare = NullStr]
                          /\ UNCHANGED pendingMoves
                     ELSE /\ store' = setHighlightedMoves(
                                         setSelectedSquare(store, square), <<>>)
                          /\ IF g.mode # "ai_vs_ai" /\ TruthyId(store.game.id)
                             THEN /\ Len(preview.pendingQueries) < MaxPendingQueries
                                  /\ preview' =
                                        [preview EXCEPT
                                            !.lastSelectedSquare = square,
                                            !.pendingQueries =
                                               Append(@, [square |-> square,
                                                          mounted |-> TRUE,
                                                          last |-> NullStr])]
                             ELSE preview' =
                                     [preview EXCEPT !.lastSelectedSquare = square]
                          /\ UNCHANGED pendingMoves
                ELSE IF TruthyStr(g.selectedSquare)
                     THEN /\ store' = cleared
                          /\ preview' = [preview EXCEPT !.lastSelectedSquare = NullStr]
                          /\ UNCHANGED pendingMoves
                     ELSE UNCHANGED <<store, preview, pendingMoves>>
           ELSE /\ store' = cleared
                /\ preview' = [preview EXCEPT !.lastSelectedSquare = NullStr]
                /\ UNCHANGED pendingMoves
        /\ UNCHANGED <<sockets, wsRef, aiWsRef, lastSelectedSquare, pendingQueries,
                       pendingCreates, nextId, createResult, study>>

\* a legal-moves query of the preview board resolves: its then-callback
PreviewLegalMovesResolved(k, moves) ==
    /\ preview' = [preview EXCEPT !.pendingQueries = RemoveAt(@, k)]
    /\ LET q == preview.pendingQueries[k]
           ref == IF q.mounted THEN preview.lastSelectedSquare ELSE q.last
       IN  store' = IF ref = q.square THEN setHighlightedMoves(store, moves) ELSE store
    /\ UNCHANGED <<sockets, wsRef, aiWsRef, lastSelectedSquare, pendingQueries,
                   pendingMoves, pendingCreates, nextId, createResult, study>>

----------------------------------------------------------------------------
(* The specifications *)

Frames(i) ==
    IF sockets[i].kind = "ai" THEN AIGameFrames[sockets[i].gameId]
    ELSE GameFrames[sockets[i].gameId][sockets[i].isWhiteHuman]

\* one page visit: a session is created once and played
Next ==
    \/ \E options \in CreateOptions : StartGame(options)
    \/ \E k \in 1..Len(pendingCreates) : CreateGameSuccess(k)
    \/ \E k \in 1..Len(pendingCreates), message \in CreateErrors :
          CreateGameFail(k, message)
    \/ \E i \in 1..Len(sockets) : SocketOnOpen(i)
    \/ \E i \in 1..Len(sockets) : \E data \in Frames(i) : GameMessage(i, data)
    \/ \E i \in 1..Len(sockets) : \E data \in Frames(i) : AIGameMessage(i, data)
    \/ \E square \in ClickSquares : HandleSquareClick(square)
    \/ \E k \in 1..Len(pendingQueries) :
          \E moves \in QueryResults(pendingQueries[k].square) :
             LegalMovesResolved(k, moves)
    \/ \E k \in 1..Len(pendingMoves) :
          \E snapshot \in ResponsesTo(k) :
             MakeMoveSuccess(k, snapshot)
    \/ \E k \in 1..Len(pendingMoves) : MakeMoveRejected(k)
    \/ \E k \in 1..Len(pendingMoves), message \in MoveErrors :
          MakeMoveError(k, message)
    \/ PageEffect

Spec == Init /\ [][Next]_vars

\* the hook's channels: createGame is called at any time, sockets open, close
\* and fail, and the server greets each open socket
NextChannels ==
    \/ \E options \in CreateOptions : CreateGameStart(options)
    \/ \E k \in 1..Len(pendingCreates) : CreateGameSuccess(k)
    \/ \E k \in 1..Len(pendingCreates), message \in CreateErrors :
          CreateGameFail(k, message)
    \/ \E i \in 1..Len(sockets) : SocketOnOpen(i)
    \/ \E i \in 1..Len(sockets) : SocketOnClose(i)
    \/ \E i \in 1..Len(sockets) : SocketOnError(i)
    \/ \E i \in 1..Len(sockets) :
          \E data \in {f \in Frames(i) : f.type = "connected" /\ IsFull(f.game)} :
             GameMessage(i, data)
    \/ \E i \in 1..Len(sockets) :
          \E data \in {f \in Frames(i) : f.type = "connected" /\ IsFull(f.game)} :
             AIGameMessage(i, data)
    \/ PageEffect

SpecChannels == Init /\ [][NextChannels]_vars

Opposite(turn) == IF turn = "white" THEN "black" ELSE "white"

\* the engine's answer to a move it accepts: a full snapshot in which the side
\* to move is the other side
EngineResponses(k) ==
    {s \in ResponsesTo(k) :
        /\ IsFull(s)
        /\ store.game.turn \in {"white", "black"}
        /\ s.turn = Opposite(store.game.turn)}

\* one page visit, played against the engine
NextEngine ==
    \/ \E options \in CreateOptions : StartGame(options)
    \/ \E k \in 1..Len(pendingCreates) : CreateGameSuccess(k)
    \/ \E k \in 1..Len(pendingCreates), message \in CreateErrors :
          CreateGameFail(k, message)
    \/ \E i \in 1..Len(sockets) : SocketOnOpen(i)
    \/ \E i \in 1..Len(sockets) : \E data \in Frames(i) : GameMessage(i, data)
    \/ \E i \in 1..Len(sockets) : \E data \in Frames(i) : AIGameMessage(i, data)
    \/ \E square \in ClickSquares : HandleSquareClick(square)
    \/ \E k \in 1..Len(pendingQueries) :
          \E moves \in QueryResults(pendingQueries[k].square) :
             LegalMovesResolved(k, moves)
    \/ \E k \in 1..Len(pendingMoves) :
          \E snapshot \in EngineResponses(k) : MakeMoveSuccess(k, snapshot)
    \/ \E k \in 1..Len(pendingMoves) : MakeMoveRejected(k)
    \/ \E k \in 1..Len(pendingMoves), message \in MoveErrors :
          MakeMoveError(k, message)
    \/ PageEffect

SpecEngine == Init /\ [][NextEngine]_vars

\* one page visit: the session is created once, its socket opens and closes,
\* and the hook's control functions are called (the page shows their buttons
\* in ai-vs-ai mode)
NextControl ==
    \/ \E options \in CreateOptions : StartGame(options)
    \/ \E k \in 1..Len(pendingCreates) : CreateGameSuccess(k)
    \/ \E k \in 1..Len(pendingCreates), message \in CreateErrors :
          CreateGameFail(k, message)
    \/ \E i \in 1..Len(sockets) : SocketOnOpen(i)
    \/ \E i \in 1..Len(sockets) : SocketOnClose(i)
    \/ \E i \in 1..Len(sockets) :
          \E data \in {f \in Frames(i) : f.type = "connected" /\ IsFull(f.game)} :
             GameMessage(i, data)
    \/ \E i \in 1..Len(sockets) : \E data \in Frames(i) : AIGameMessage(i, data)
    \/ pauseAIGame
    \/ resumeAIGame
    \/ stepAIGame
    \/ \E speed \in Speeds : setAIGameSpeed(speed)
    \/ PageEffect

SpecControl == Init /\ [][NextControl]_vars

\* visits of the game page, one after the other: sessions are created, their
\* sockets open and close, the board is clicked, the page is left
NextSessions ==
    \/ \E options \in CreateOptions : StartGameOnPage(options)
    \/ \E k \in 1..Len(pendingCreates) : CreateGameSuccess(k)
    \/ \E i \in 1..Len(sockets) : SocketOnOpen(i)
    \/ \E i \in 1..Len(sockets) : SocketOnClose(i)
    \/ \E square \in ClickSquares : ClickOnPage(square)
    \/ \E k \in 1..Len(pendingQueries) :
          \E moves \in QueryResults(pendingQueries[k].square) :
             LegalMovesResolved(k, moves)
    \/ \E k \in 1..Len(pendingMoves) : MakeMoveRejected(k)
    \/ LeavePage

SpecSessions == Init /\ [][NextSessions]_vars

\* the study centre: openings are selected, the board is clicked, analyses
\* come back
NextStudy ==
    \/ \E fen \in OpeningFens : SelectOpening(fen)
    \/ \E k \in 1..Len(study.pendingAnalyses), ok \in BOOLEAN : AnalysisResolved(k, ok)
    \/ \E square \in ClickSquares : StudyBoardClick(square)

SpecStudy == Init /\ [][NextStudy]_vars

\* the boards that are given a game state, after a visit of the game page: a
\* session may have been created, lessons are selected, the preview board and
\* the study board are clicked
NextExternalBoards ==
    \/ \E options \in CreateOptions : StartGame(options)
    \/ \E k \in 1..Len(pendingCreates) : CreateGameSuccess(k)
    \/ \E fen \in LessonFens : SelectLesson(fen)
    \/ CloseLesson
    \/ \E square \in ClickSquares : PreviewSquareClick(square)
    \/ \E k \in 1..Len(preview.pendingQueries) :
          \E moves \in QueryResults(preview.pendingQueries[k].square) :
             PreviewLegalMovesResolved(k, moves)
    \/ \E square \in ClickSquares : StudyBoardClick(square)

SpecExternalBoards == Init /\ [][NextExternalBoards]_vars

----------------------------------------------------------------------------
(* Properties *)

Auth(g) == [f \in AuthFields |-> g[f]]
Overlay(g) == [f \in OverlayFields |-> g[f]]

\* a frame is delivered to the handler of socket i
FrameStep(i, data) == GameMessage(i, data) \/ AIGameMessage(i, data)

\* a step that applies a server-originated payload
AuthoritativeUpdateStep ==
    \/ \E i \in 1..Len(sockets) : \E data \in Frames(i) : FrameStep(i, data)
    \/ \E k \in 1..Len(pendingMoves) :
          \E snapshot \in ResponsesTo(k) :
             MakeMoveSuccess(k, snapshot)
    \/ \E k \in 1..Len(pendingCreates) : CreateGameSuccess(k)

SnapshotFrameTypes == {"state", "move", "game_over"}

\* what an authoritative field holds after a snapshot without it was applied
AbsentValue(f) ==
    IF f \in {"moveHistory", "legalMoves"} THEN <<>>
    ELSE IF f = "evaluation" THEN 0
    ELSE IF f = "opening" THEN NoOpening
    ELSE IF f = "fen" THEN UndefinedStr
    ELSE Undefined

AllSnapshots ==
    UNION {MoveResponses[id][mode][w] :
              id \in IdSet, mode \in CreateModes, w \in BOOLEAN}

\* the store after the handler of socket i has processed the frame
HandlerStore(i, data) ==
    IF sockets[i].kind = "ai" THEN AIGameOnMessage(store, data).store
    ELSE GameOnMessage(store, data).store

\* the frames with a snapshot that socket i can deliver now
SnapshotFrames(i) ==
    IF sockets[i].readyState = "OPEN"
    THEN {d \in Frames(i) : FramePayload(d) # NoSnapshot}
    ELSE {}

C2_PositionChangeClearsSelection ==
    [][(AuthoritativeUpdateStep /\ store'.game.fen # store.game.fen)
          => /\ store'.game.selectedSquare = NullStr
             /\ store'.game.highlightedMoves = <<>>]_vars

\* C3: when a legal-move query resolves that was started for a square other
\* than the one selected now, or that a later selection of another square
\* has superseded, the highlight set is not changed by it.
C3_StaleQueryDiscarded ==
    [][\A k \in 1..Len(pendingQueries) :
          \A moves \in QueryResults(pendingQueries[k].square) :
             (/\ LegalMovesResolved(k, moves)
              /\ \/ pendingQueries[k].superseded
                 \/ pendingQueries[k].square # store.game.selectedSquare)
             => store'.game.highlightedMoves = store.game.highlightedMoves]_vars

\* C4: whichever message carrying a full snapshot is processed next, the
\* response to a pending makeMove or a push frame of either channel, the
\* authoritative fields afterwards equal that snapshot, so that after any
\* interleaving they equal the snapshot of the message processed last.
C4_LastProcessedSnapshotWins ==
    /\ \A k \in 1..Len(pendingMoves) :
          \A snapshot \in ResponsesTo(k) :
             IsFull(snapshot)
             => Auth(MakeMoveApply(store, pendingMoves[k].move, snapshot).game) = snapshot
    /\ \A i \in 1..Len(sockets) : \A data \in SnapshotFrames(i) :
          IsFull(FramePayload(data))
          => Auth(HandlerStore(i, data).game) = FramePayload(data)

\* a move was answered and the position is that of a later snapshot
C4_Witness ==
    /\ store.game.mode = "human_vs_ai"
    /\ store.game.lastMove = [from |-> e2, to |-> e4]
    /\ store.game.fen = FenE4E5
    /\ store.game.moveHistory = <<"e4", "e5">>
    /\ store.game.turn = "white"
    /\ pendingMoves = <<>>

SameVisible(a, b) ==
    /\ Auth(a.game) = Auth(b.game)
    /\ a.game.lastMove = b.game.lastMove

\* the session whose frames the store can meet
FrameId == IF TruthyId(store.game.id) THEN store.game.id ELSE GameIds[1]

\* C5: from every store state, processing the same move frame twice in a row
\* leaves the authoritative fields and lastMove as processing it once does,
\* on the primary and on the control channel.
C5_MoveFrameIdempotent ==
    /\ \A data \in {d \in GameFrames[FrameId][store.game.isWhiteHuman] : d.type = "move"} :
          LET once == GameOnMessage(store, data).store
          IN  SameVisible(GameOnMessage(once, data).store, once)
    /\ \A data \in {d \in AIGameFrames[FrameId] : d.type = "move"} :
          LET once == AIGameOnMessage(store, data).store
          IN  SameVisible(AIGameOnMessage(once, data).store, once)

\* a move frame of the control channel has set the position and lastMove
C5_Witness ==
    /\ store.game.mode = "ai_vs_ai"
    /\ store.game.lastMove = [from |-> e7, to |-> <<"e", "8">>]
    /\ store.game.moveHistory = <<"e4", "e5">>

\* C6: updateFromServer leaves selectedSquare, highlightedMoves and lastMove
\* as they were, for every snapshot.
C6_UpdateLeavesOverlay ==
    \A s \in AllSnapshots :
        Overlay(updateFromServer(store, s).game) = Overlay(store.game)

\* a snapshot replaced the position while a square was selected and highlighted
C6_Witness ==
    /\ store.game.fen = FenE4E5
    /\ store.game.selectedSquare = e2
    /\ store.game.highlightedMoves = <<e2e4>>
    /\ store.game.lastMove = [from |-> e2, to |-> e4]

\* the store after differs from the store before in game.<f> only, which is v
OnlyGameField(before, after, f, v) ==
    /\ DOMAIN after = DOMAIN before
    /\ after.isConnected = before.isConnected
    /\ after.isLoading = before.isLoading
    /\ after.error = before.error
    /\ DOMAIN after.game = DOMAIN before.game
    /\ \A g \in (AuthFields \cup OverlayFields) \ {f} : after.game[g] = before.game[g]
    /\ after.game[f] = v

\* C7: setSelectedSquare, setHighlightedMoves and setLastMove each change only
\* their own overlay field: the authoritative fields, the two other overlay
\* fields, isConnected, isLoading and error stay as they were.
C7_NarrowSettersTouchOwnField ==
    /\ \A square \in ClickSquares \cup {NullStr} :
          OnlyGameField(store, setSelectedSquare(store, square),
                        "selectedSquare", square)
    /\ \A moves \in {<<>>, <<e2e4>>, <<e7e5>>} :
          OnlyGameField(store, setHighlightedMoves(store, moves),
                        "highlightedMoves", moves)
    /\ \A move \in {NoMove, [from |-> e2, to |-> e4], [from |-> e7, to |-> e5]} :
          OnlyGameField(store, setLastMove(store, move), "lastMove", move)

\* all three overlay fields have been set, and an error is recorded
C7_Witness ==
    /\ store.game.selectedSquare = d2
    /\ store.game.highlightedMoves = <<d2 \o d4>>
    /\ store.game.lastMove = [from |-> e2, to |-> e4]
    /\ store.error = "Failed to fetch"

\* C8: no step of square-click handling (select, deselect, commit with its
\* optimistic clear, highlight population by a resolved query) changes an
\* authoritative field.
C8_ClicksLeaveAuthoritativeFields ==
    [][(\/ \E square \in ClickSquares : HandleSquareClick(square)
        \/ \E k \in 1..Len(pendingQueries) :
              \E moves \in QueryResults(pendingQueries[k].square) :
                 LegalMovesResolved(k, moves))
       => Auth(store'.game) = Auth(store.game)]_vars

\* a move was committed from a position a snapshot had set
C8_Witness ==
    /\ Len(pendingMoves) = 1
    /\ pendingMoves[1].move = e2e4
    /\ store.game.fen = FenE4
    /\ store.game.turn = "black"
    /\ store.game.selectedSquare = NullStr
    /\ store.game.highlightedMoves = <<>>

\* the sockets of a kind that are connecting or open
Live(kind) ==
    {i \in 1..Len(sockets) :
        sockets[i].kind = kind /\ sockets[i].readyState \in {"CONNECTING", "OPEN"}}

\* C9: at most one channel of each kind is open or connecting at any time.
C9_OneLiveChannelPerKind ==
    \A kind \in {"game", "ai"} : Cardinality(Live(kind)) <= 1

\* C10: createGame leaves the session as it is while it waits and when it
\* fails; on failure error holds the message, createGame returns null, and no
\* socket is constructed or closed.
C10_CreateFailureLeavesSession ==
    [][/\ \A options \in CreateOptions :
             CreateGameStart(options)
             => store'.game = store.game /\ sockets' = sockets
       /\ \A k \in 1..Len(pendingCreates) : \A message \in CreateErrors :
             CreateGameFail(k, message)
             => /\ store'.game = store.game
                /\ store'.error = message
                /\ store'.error # Null
                /\ ~store'.isLoading
                /\ createResult' = Null
                /\ sockets' = sockets
                /\ wsRef' = wsRef
                /\ aiWsRef' = aiWsRef]_vars

\* a create failed while a session with its channel existed
C10_Witness ==
    /\ createResult = Null
    /\ store.error = "Unexpected token"
    /\ store.game.id = "g1"
    /\ Len(sockets) = 1
    /\ pendingCreates = <<>>

\* C11: when makeMove succeeds, in the one step in which its await resumes the
\* returned snapshot is applied (every authoritative field it carries holds
\* the snapshot's value) and lastMove is set to characters 1-2 and 3-4 of the
\* submitted move; the request is then no longer pending.
C11_MoveSuccessAppliesSnapshotAndLastMove ==
    [][\A k \in 1..Len(pendingMoves) : \A snapshot \in ResponsesTo(k) :
          MakeMoveSuccess(k, snapshot)
          => /\ \A f \in AuthFields \cap DOMAIN snapshot :
                   store'.game[f] = snapshot[f]
             /\ store'.game.lastMove =
                   [from |-> SubSeq(pendingMoves[k].move, 1, 2),
                    to |-> SubSeq(pendingMoves[k].move, 3, 4)]
             /\ Len(pendingMoves') = Len(pendingMoves) - 1]_vars

\* the move e2e4 was answered with the position after 1. e4
C11_Witness ==
    /\ pendingMoves = <<>>
    /\ store.game.lastMove = [from |-> e2, to |-> e4]
    /\ store.game.fen = FenE4
    /\ store.game.turn = "black"
    /\ store.game.moveHistory = <<"e4">>
    /\ store.game.selectedSquare = NullStr
    /\ store.error = Null

\* C12: when makeMove meets a transport error, nothing is thrown to the click
\* handler, error holds the message, and every authoritative field, every
\* overlay field (lastMove among them) and the other flags keep their values.
C12_MoveTransportErrorRecorded ==
    [][\A k \in 1..Len(pendingMoves) : \A message \in MoveErrors :
          MakeMoveError(k, message)
          => /\ ~MakeMoveCatch(store, message).threw
             /\ store'.error = message
             /\ store'.error # Null
             /\ store'.game = store.game
             /\ store'.isConnected = store.isConnected
             /\ store'.isLoading = store.isLoading]_vars

\* a second move failed in transport after a first one had set lastMove
C12_Witness ==
    /\ store.error = "Failed to fetch"
    /\ store.game.id = "g1"
    /\ store.game.lastMove = [from |-> e2, to |-> e4]
    /\ store.game.fen = FenE4E5
    /\ pendingMoves = <<>>

BoardStep ==
    \/ \E square \in ClickSquares : HandleSquareClick(square)
    \/ \E k \in 1..Len(pendingQueries) :
          \E moves \in QueryResults(pendingQueries[k].square) :
             LegalMovesResolved(k, moves)

FailedResponse(r) == r.kind # "json" \/ ~Has(r.data, "moves")

\* C14: getLegalMovesForSquare never raises, and resolves to the empty list
\* without a session id, when fetch or response.json() rejects and when the
\* body has no move list; a query that resolves to the empty list empties the
\* highlights if its square is the one last selected and changes nothing
\* else: the selection, the other pending queries and the pending moves are
\* as before, so later clicks select and commit as usual.
C14_LegalMoveQueryNeverRaises ==
    [][/\ \A square \in ClickSquares : \A r \in QueryResponses(square) :
             /\ getLegalMovesForSquare(Null, r) = [moves |-> <<>>, threw |-> FALSE]
             /\ ~getLegalMovesForSquare(store.game.id, r).threw
             /\ (FailedResponse(r) /\ TruthyId(store.game.id))
                => getLegalMovesForSquare(store.game.id, r).moves = <<>>
       /\ \A k \in 1..Len(pendingQueries) :
             LegalMovesResolved(k, <<>>)
             => /\ store'.game.highlightedMoves =
                      IF lastSelectedSquare = pendingQueries[k].square
                      THEN <<>> ELSE store.game.highlightedMoves
                /\ store'.game.selectedSquare = store.game.selectedSquare
                /\ Auth(store'.game) = Auth(store.game)
                /\ store'.error = store.error
                /\ pendingMoves' = pendingMoves
                /\ Len(pendingQueries') = Len(pendingQueries) - 1]_vars

\* the query for d2 has resolved to the empty list while d2 is selected in a
\* session, and an earlier move from e2 has been answered
C14_Witness ==
    /\ store.game.id = "g1"
    /\ store.game.selectedSquare = d2
    /\ lastSelectedSquare = d2
    /\ store.game.highlightedMoves = <<>>
    /\ pendingQueries = <<>>
    /\ store.game.lastMove = [from |-> e2, to |-> e4]
    /\ store.game.turn = "white"

\* the side the human plays
HumanSide(g) == IF g.isWhiteHuman THEN "white" ELSE "black"

\* C15: a click makes a square the selected square only if the square holds a
\* piece and either the mode is ai_vs_ai or the piece's colour is the human
\* side's colour and that side is the side to move.
C15_OnlySelectablePiecesSelected ==
    [][\A square \in ClickSquares :
          (HandleSquareClick(square) /\ store'.game.selectedSquare = square)
          => /\ square \in DOMAIN boardState[store.game.fen]
             /\ \/ store.game.mode = "ai_vs_ai"
                \/ /\ boardState[store.game.fen][square].color = HumanSide(store.game)
                   /\ store.game.turn = HumanSide(store.game)]_vars

\* the human plays black and has selected the pawn on e7 with black to move
C15_Witness ==
    /\ store.game.mode = "human_vs_ai"
    /\ ~store.game.isWhiteHuman
    /\ store.game.turn = "black"
    /\ store.game.selectedSquare = e7
    /\ store.game.highlightedMoves = <<e7e5>>

\* the click on square commits a move from the selected square
Commits(square) ==
    /\ TruthyStr(store.game.selectedSquare)
    /\ Includes(store.game.highlightedMoves, store.game.selectedSquare \o square)

OpenSockets(kind) ==
    {i \in 1..Len(sockets) : sockets[i].kind = kind /\ sockets[i].readyState = "OPEN"}

\* C17 (as the claim states it): on the primary channel a move frame with a
\* snapshot applies the snapshot and, when it includes an engine move, sets
\* lastMove to the move's source and destination squares, otherwise leaves
\* lastMove as it was; the handler does not throw.
C17_PrimaryMoveFrameSetsLastMove ==
    \A i \in OpenSockets("game") : \A data \in Frames(i) :
        (data.type = "move" /\ Has(data, "data") /\ Has(data.data, "game"))
        => LET r == GameOnMessage(store, data) IN
           /\ Auth(r.store.game) = Auth(updateFromServer(store, data.data.game).game)
           /\ r.store.game.lastMove =
                 IF Has(data.data, "aiMove")
                 THEN [from |-> SubSeq(data.data.aiMove.uci, 1, 2),
                       to |-> SubSeq(data.data.aiMove.uci, 3, 4)]
                 ELSE store.game.lastMove

\* C18: on the control channel a paused frame sets status to paused and a
\* resumed frame sets status to active; no other field of the store changes
\* and the handler does not throw.
C18_PauseResumeSetOnlyStatus ==
    \A i \in OpenSockets("ai") : \A data \in Frames(i) :
        data.type \in {"paused", "resumed"}
        => AIGameOnMessage(store, data) =
              Ran([store EXCEPT !.game.status =
                      IF data.type = "paused" THEN "paused" ELSE "active"])

\* an automated session was paused after 1. e4 was played and marked
C18_Witness ==
    /\ OpenSockets("ai") # {}
    /\ store.game.mode = "ai_vs_ai"
    /\ store.game.status = "paused"
    /\ store.game.fen = FenE4
    /\ store.game.moveHistory = <<"e4">>
    /\ store.game.lastMove = [from |-> e2, to |-> e4]

\* the types each channel's handler has a branch for
HandledTypes(kind) ==
    IF kind = "ai" THEN {"connected", "move", "game_over", "paused", "resumed"}
    ELSE {"connected", "move", "state"}

\* every frame either server pushes
AllFrames ==
    UNION {GameFrames[id][w] : id \in IdSet, w \in BOOLEAN}
    \cup UNION {AIGameFrames[id] : id \in IdSet}

\* C20: a frame whose type the channel does not handle, on either channel,
\* changes no field of the store and raises no exception.
C20_UnhandledFrameIgnored ==
    \A i \in 1..Len(sockets) :
        sockets[i].readyState = "OPEN"
        => \A data \in AllFrames :
              data.type \notin HandledTypes(sockets[i].kind)
              => (IF sockets[i].kind = "ai" THEN AIGameOnMessage(store, data)
                  ELSE GameOnMessage(store, data)) = Ran(store)

\* a session after 1. e4 with a selection, whose open channel can deliver a
\* frame of a type it does not handle
C20_Witness ==
    /\ \E i \in 1..Len(sockets) :
          /\ sockets[i].readyState = "OPEN"
          /\ \E data \in Frames(i) : data.type \notin HandledTypes(sockets[i].kind)
    /\ store.isConnected
    /\ store.game.fen = FenE4
    /\ store.game.selectedSquare = e7

\* the frame each control call is to put on the control channel
ControlFrameOf(call) ==
    IF call = "speed" THEN {[type |-> "speed", value |-> speed] : speed \in Speeds}
    ELSE {[type |-> call]}

\* C19 (as the claim states it): each control call made after the automated
\* session was created put exactly one frame of its own type on the control
\* channel, in the order of the calls: pause then step gives pause, step.
C19_EachCallSendsItsFrame ==
    \A i \in 1..Len(sockets) :
        sockets[i].kind = "ai"
        => /\ Len(sockets[i].sent) = Len(sockets[i].calls)
           /\ \A n \in 1..Len(sockets[i].calls) :
                 sockets[i].sent[n] \in ControlFrameOf(sockets[i].calls[n])

\* a step that is the control call `call` on the socket the hook holds
ControlCallStep(call) ==
    /\ aiWsRef # NoSocket
    /\ sockets'[aiWsRef].calls = Append(sockets[aiWsRef].calls, call)

\* C19 (amended): a control call made while the control socket the hook holds
\* is OPEN puts exactly one frame of its own type after the frames already
\* sent on it, a control call made while it is not OPEN sends nothing, and
\* nothing else sends a frame: pause then step on an open channel gives
\* exactly pause, step.
C19_OpenChannelCallSendsItsFrame ==
    [][\A i \in 1..Len(sockets) :
          IF i = aiWsRef /\ sockets'[i].calls # sockets[i].calls
          THEN \E call \in {"pause", "resume", "step", "speed"} :
                  /\ ControlCallStep(call)
                  /\ IF sockets[i].readyState = "OPEN"
                     THEN \E frame \in ControlFrameOf(call) :
                             sockets'[i].sent = Append(sockets[i].sent, frame)
                     ELSE sockets'[i].sent = sockets[i].sent
          ELSE sockets'[i].sent = sockets[i].sent]_vars

\* pause and then step were called on the open control channel of session g1
C19_Witness ==
    /\ aiWsRef # NoSocket
    /\ sockets[aiWsRef].kind = "ai"
    /\ sockets[aiWsRef].readyState = "OPEN"
    /\ sockets[aiWsRef].calls = <<"pause", "step">>
    /\ sockets[aiWsRef].sent = <<[type |-> "pause"], [type |-> "step"]>>
    /\ store.game.status = "paused"

\* the frames of a type the channel handles that carry no snapshot where the
\* handler reads one
FramesWithoutSnapshot(i) ==
    {d \in Frames(i) : /\ d.type \in {"connected", "move", "state", "game_over"}
                       /\ d.type \in HandledTypes(sockets[i].kind)
                       /\ FramePayload(d) = NoSnapshot}

\* C21 (as the claim states it): a frame of a handled type that lacks its
\* embedded snapshot is processed without an exception and leaves every field
\* of the store unchanged.
C21_FrameWithoutSnapshotHarmless ==
    \A i \in 1..Len(sockets) :
        sockets[i].readyState = "OPEN"
        => \A data \in FramesWithoutSnapshot(i) :
              (IF sockets[i].kind = "ai" THEN AIGameOnMessage(store, data)
               ELSE GameOnMessage(store, data)) = Ran(store)

OverlayIsReset(g) ==
    /\ g.selectedSquare = NullStr
    /\ g.highlightedMoves = <<>>
    /\ g.lastMove = NoMove

\* C22 (as the claim states it): right after a successful create has applied
\* the new session's snapshot, and right after the game is reset, the overlay
\* is reset: nothing selected, no highlights, no last move.
C22_SessionReplacementResetsOverlay ==
    [][((\E k \in 1..Len(pendingCreates) : CreateGameSuccess(k)) \/ PageEffect)
       => OverlayIsReset(store'.game)]_vars

\* a step in which the response to the move request k arrives
MoveResponseStep(k) ==
    \/ \E snapshot \in ResponsesTo(k) : MakeMoveSuccess(k, snapshot)
    \/ MakeMoveRejected(k)
    \/ \E message \in MoveErrors : MakeMoveError(k, message)

\* C23 (as the claim states it): the click that commits a move clears
\* selectedSquare and highlightedMoves in its own step, in which the request
\* is issued, and when the response arrives, whatever it is, nothing is
\* selected and nothing is highlighted.
C23_CommitClearsAndResponseFindsIdle ==
    [][/\ \A square \in ClickSquares :
             (HandleSquareClick(square) /\ Commits(square))
             => /\ store'.game.selectedSquare = NullStr
                /\ store'.game.highlightedMoves = <<>>
       /\ \A k \in 1..Len(pendingMoves) :
             (pendingMoves' = RemoveAt(pendingMoves, k) /\ MoveResponseStep(k))
             => /\ store'.game.selectedSquare = NullStr
                /\ store'.game.highlightedMoves = <<>>]_vars

\* C26: when a channel closes (cleanly or after an error) the connectivity
\* flag is false afterwards and no channel is opened by it: no socket is
\* constructed, no ref changes and no other socket changes; a socket is
\* constructed only by a successful create.
C26_CloseDoesNotReconnect ==
    [][/\ \A i \in 1..Len(sockets) :
             (sockets[i].readyState # "CLOSED" /\ sockets'[i].readyState = "CLOSED")
             => /\ ~store'.isConnected
                /\ Len(sockets') = Len(sockets)
                /\ wsRef' = wsRef /\ aiWsRef' = aiWsRef
                /\ \A j \in 1..Len(sockets) : j # i => sockets'[j] = sockets[j]
       /\ Len(sockets') # Len(sockets)
          => \E k \in 1..Len(pendingCreates) : CreateGameSuccess(k)]_vars

\* the channel of session g1 was open and has closed; nothing replaced it
C26_Witness ==
    /\ Len(sockets) = 1
    /\ sockets[1].readyState = "CLOSED"
    /\ store.game.id = GameIds[1]
    /\ ~store.isConnected
    /\ store.error = Null

\* C27: a successful create constructs exactly one socket, a control socket
\* for an ai_vs_ai session and a primary socket otherwise, for the session it
\* created; and no frame of a control call is ever sent on a primary socket.
C27_OneChannelOfMatchingKind ==
    [][/\ \A k \in 1..Len(pendingCreates) :
             CreateGameSuccess(k)
             => /\ Len(sockets') = Len(sockets) + 1
                /\ sockets'[Len(sockets')].kind =
                      IF pendingCreates[k].mode = "ai_vs_ai" THEN "ai" ELSE "game"
                /\ sockets'[Len(sockets')].gameId = store'.game.id
                /\ store'.game.mode = pendingCreates[k].mode
       /\ \A i \in 1..Len(sockets') :
             sockets'[i].kind = "game" => sockets'[i].sent = <<>>]_vars

\* a human_vs_ai visit whose primary socket is open, after control calls
C27_Witness ==
    /\ Len(sockets) = 1
    /\ sockets[1].kind = "game"
    /\ sockets[1].readyState = "OPEN"
    /\ store.game.mode = "human_vs_ai"
    /\ store.game.id = GameIds[1]
    /\ aiWsRef = NoSocket

\* the board lets the square be selected
Selectable(square) ==
    /\ square \in DOMAIN boardState[store.game.fen]
    /\ \/ store.game.mode = "ai_vs_ai"
       \/ /\ boardState[store.game.fen][square].color = HumanSide(store.game)
          /\ store.game.turn = HumanSide(store.game)

\* the step starts a legal-destination query for the square
QueryStarted(square) ==
    /\ Len(pendingQueries') = Len(pendingQueries) + 1
    /\ pendingQueries'[Len(pendingQueries')] = [square |-> square, superseded |-> FALSE]

\* C28 (as the claim states it): a click on a selectable square while nothing
\* is selected makes it the selected square, empties the highlights and
\* starts the legal-destination query for it, all in the click's step.
C28_SelectStartsQuery ==
    [][\A square \in ClickSquares :
          (HandleSquareClick(square) /\ ~TruthyStr(store.game.selectedSquare)
             /\ Selectable(square))
          => /\ store'.game.selectedSquare = square
             /\ store'.game.highlightedMoves = <<>>
             /\ QueryStarted(square)]_vars

\* C28 (amended): a click on a selectable square while nothing is selected
\* makes it the selected square and empties the highlights in the click's
\* step; the legal-destination request for it is started in that step when
\* the mode is not ai_vs_ai and the store holds a session id, and no request
\* is started otherwise.
C28_SelectStartsQueryInHumanSession ==
    [][\A square \in ClickSquares :
          (HandleSquareClick(square) /\ ~TruthyStr(store.game.selectedSquare)
             /\ Selectable(square))
          => /\ store'.game.selectedSquare = square
             /\ store'.game.highlightedMoves = <<>>
             /\ IF store.game.mode # "ai_vs_ai" /\ TruthyId(store.game.id)
                THEN QueryStarted(square)
                ELSE Len(pendingQueries') = Len(pendingQueries)]_vars

\* e2 was just selected in session g1: its query is pending, nothing is
\* highlighted yet
C28_Witness ==
    /\ store.game.id = GameIds[1]
    /\ store.game.mode = "human_vs_ai"
    /\ store.game.selectedSquare = e2
    /\ store.game.highlightedMoves = <<>>
    /\ lastSelectedSquare = e2
    /\ pendingQueries = <<[square |-> e2, superseded |-> FALSE]>>

\* C29: with a square selected, a click that commits no move and falls on the
\* selected square, on an empty square or on a piece that is not selectable
\* ends with nothing selected and no highlights, and issues no move request.
C29_DeselectingClicksEndIdle ==
    [][\A square \in ClickSquares :
          (HandleSquareClick(square) /\ TruthyStr(store.game.selectedSquare)
             /\ ~Commits(square)
             /\ (square = store.game.selectedSquare \/ ~Selectable(square)))
          => /\ store'.game.selectedSquare = NullStr
             /\ store'.game.highlightedMoves = <<>>
             /\ pendingMoves' = pendingMoves]_vars

\* e2 was selected and highlighted, the position moved on to 1. e4 and a
\* click then deselected: nothing selected, nothing highlighted
C29_Witness ==
    /\ store.game.id = GameIds[1]
    /\ store.game.fen = FenE4
    /\ store.game.selectedSquare = NullStr
    /\ store.game.highlightedMoves = <<>>
    /\ lastSelectedSquare = NullStr
    /\ pendingMoves = <<>>
    /\ store.game.lastMove = NoMove
    /\ pendingQueries # <<>>

\* C30: when the legal-destination query of the selected square resolves (and
\* that square is the one the board remembers), the highlights become exactly
\* the list the query resolved to.
C30_HighlightsAreTheReturnedList ==
    [][\A k \in 1..Len(pendingQueries) :
          \A moves \in QueryResults(pendingQueries[k].square) :
             (LegalMovesResolved(k, moves)
                /\ store.game.selectedSquare = pendingQueries[k].square
                /\ lastSelectedSquare = pendingQueries[k].square)
             => store'.game.highlightedMoves = moves]_vars

\* the query for the selected e2 resolved with the engine's list
C30_Witness ==
    /\ store.game.fen = InitialFen
    /\ store.game.selectedSquare = e2
    /\ lastSelectedSquare = e2
    /\ store.game.highlightedMoves = <<e2e4>>
    /\ pendingQueries = <<>>

\* C24 (as the claim states it): a click on a board that was given a game
\* state (the study board, the lesson preview) writes no field of the store
\* and issues no makeMove or legal-destination request.
C24_ExternalBoardLeavesStore ==
    [][\A square \in ClickSquares :
          (StudyBoardClick(square) \/ PreviewSquareClick(square))
          => /\ store' = store
             /\ pendingMoves' = pendingMoves
             /\ pendingQueries' = pendingQueries
             /\ Len(preview'.pendingQueries) = Len(preview.pendingQueries)]_vars

\* C25: selecting an opening whose position string does not parse leaves the
\* study board as it was: position, selection, highlights, last move and
\* analysis state keep their values, and no analysis request is issued.
C25_InvalidPositionChangesNothing ==
    [][SelectOpening(InvalidFen)
       => /\ study' = [study EXCEPT !.selectedOpening = InvalidFen]
          /\ study'.pendingAnalyses = study.pendingAnalyses
          /\ store' = store]_vars

\* after 1. e4 on the study board and a selection of e7, the opening with the
\* invalid position was selected: the board still shows all of it
C25_Witness ==
    /\ study.selectedOpening = InvalidFen
    /\ study.fen = FenE4
    /\ study.chess = FenE4
    /\ study.lastMove = [from |-> e2, to |-> e4]
    /\ study.selectedSquare = e7
    /\ study.highlightedMoves = <<e7 \o e6, e7 \o e5>>

\* C31 (as the claim states it): whenever moves are highlighted a square is
\* selected and every highlighted move starts at it; a query that resolves
\* after a deselection or a commit highlights nothing.
C31_HighlightsBelongToSelection ==
    LET g == store.game IN
    g.highlightedMoves # <<>>
    => /\ TruthyStr(g.selectedSquare)
       /\ \A n \in 1..Len(g.highlightedMoves) :
             Substring(g.highlightedMoves[n], 0, 2) = g.selectedSquare

\* C32 (as the claim states it): at most one makeMove request awaits its
\* response.
C32_OneMoveInFlight == Len(pendingMoves) <= 1

\* C33 (as the claim states it): a frame that arrives on a channel opened for
\* a session other than the one whose id is in the store leaves the store
\* as it was.
C33_StaleChannelFrameIgnored ==
    [][\A i \in 1..Len(sockets) : \A data \in Frames(i) :
          /\ GameMessage(i, data) \/ AIGameMessage(i, data)
          /\ sockets[i].gameId # store.game.id
          => store' = store]_vars

\* C34 (as the claim states it): in a human-vs-engine session a click issues a
\* makeMove request only if, in the store before the click, the side to move
\* is the human side and the selected square holds a piece of that side.
C34_CommitOnlyOnHumanTurn ==
    [][\A square \in ClickSquares :
          /\ HandleSquareClick(square)
          /\ Len(pendingMoves') > Len(pendingMoves)
          /\ store.game.mode = "human_vs_ai"
          => /\ store.game.turn = HumanSide(store.game)
             /\ store.game.selectedSquare \in DOMAIN boardState[store.game.fen]
             /\ boardState[store.game.fen][store.game.selectedSquare].color
                   = HumanSide(store.game)]_vars

\* C37 (as the claim states it): isConnected is true exactly when a channel
\* of the session in the store is open.
C37_ConnectedIffCurrentChannelOpen ==
    store.isConnected
    <=> \E i \in 1..Len(sockets) :
           /\ sockets[i].gameId = store.game.id
           /\ sockets[i].readyState = "OPEN"

\* C38 (as the claim states it): once the final snapshot of a finished game
\* is in the store (status completed), a paused or resumed frame leaves the
\* status as it is.
C38_CompletedStatusStays ==
    [][\A i \in 1..Len(sockets) : \A data \in Frames(i) :
          /\ AIGameMessage(i, data)
          /\ data.type \in {"paused", "resumed"}
          /\ store.game.status = "completed"
          => store'.game.status = "completed"]_vars

\* C40 (as the claim states it): isLoading is true exactly while a create
\* request is in flight.
C40_LoadingIffCreateInFlight == store.isLoading <=> pendingCreates # <<>>

\* a move frame of the primary channel that carries a snapshot and the
\* engine's move
EngineReplyFrames(i) ==
    {d \in Frames(i) :
        /\ d.type = "move"
        /\ Has(d, "data")
        /\ Has(d.data, "game")
        /\ Has(d.data, "aiMove")}

\* C36 (as the claim states it): when the response to the human's move e2e4
\* and the move frame with the engine's reply have both been processed,
\* lastMove is the engine's move. Response first: the frame arrives when
\* lastMove is e2-e4 and no request is pending. Frame first: the response
\* arrives when the store already shows the position after the reply and
\* leaves that position in the store.
C36_LastMoveIsEngineReply ==
    [][/\ \A i \in 1..Len(sockets) : \A data \in EngineReplyFrames(i) :
             /\ GameMessage(i, data)
             /\ pendingMoves = <<>>
             /\ store.game.lastMove = [from |-> e2, to |-> e4]
             => store'.game.lastMove =
                   [from |-> UciFrom(data.data.aiMove.uci),
                    to |-> UciTo(data.data.aiMove.uci)]
       /\ \A snapshot \in FullSnapshots(store.game.id, "human_vs_ai") :
             /\ Len(pendingMoves) = 1
             /\ pendingMoves[1].move = e2e4
             /\ MakeMoveSuccess(1, ForSide(snapshot, store.game.isWhiteHuman))
             /\ store.game.fen = FenE4E5
             /\ store.game.lastMove = NoMove
             /\ store'.game.fen = FenE4E5
             => store'.game.lastMove = [from |-> e7, to |-> e5]]_vars

\* C39: a control call made while the socket the hook holds is connecting,
\* closing or closed sends nothing and leaves the store and every other
\* socket as they were, and the call is not kept for later: a frame is handed
\* to a socket only in the step of a call made while that socket is open, one
\* frame per call (with no control socket at all the call changes nothing).
C39_CallWithoutOpenChannelDropped ==
    [][/\ \A call \in {"pause", "resume", "step", "speed"} :
             /\ ControlCallStep(call)
             /\ sockets[aiWsRef].readyState # "OPEN"
             => /\ store' = store
                /\ \A i \in 1..Len(sockets) : sockets'[i].sent = sockets[i].sent
                /\ \A i \in 1..Len(sockets) :
                      sockets'[i].readyState = sockets[i].readyState
       /\ \A i \in 1..Len(sockets) :
             (i <= Len(sockets') /\ sockets'[i].sent # sockets[i].sent)
             => /\ sockets[i].readyState = "OPEN"
                /\ i = aiWsRef
                /\ Len(sockets'[i].calls) = Len(sockets[i].calls) + 1
                /\ Len(sockets'[i].sent) = Len(sockets[i].sent) + 1]_vars

\* pause and step were called while the control socket was connecting; the
\* socket has opened since and nothing was sent on it
C39_Witness ==
    /\ aiWsRef # NoSocket
    /\ sockets[aiWsRef].kind = "ai"
    /\ sockets[aiWsRef].readyState = "OPEN"
    /\ sockets[aiWsRef].calls = <<"pause", "step">>
    /\ sockets[aiWsRef].sent = <<>>
    /\ store.error = Null

\* C35 (as the claim states it): while the store's mode is ai_vs_ai, no click
\* issues a makeMove request or starts a legal-moves query, whatever
\* selection and highlights an earlier session left in the store.
C35_NoRequestInAutomatedMode ==
    [][\A square \in ClickSquares :
          (ClickOnPage(square) /\ store.game.mode = "ai_vs_ai")
          => /\ pendingMoves' = pendingMoves
             /\ Len(pendingQueries') = Len(pendingQueries)]_vars

====
